---- MODULE Spec2Model ----
(***************************************************************************)
(* Verification model of the zlayout spatial-index and placement core:     *)
(* Rectangle predicates, QuadTree, RTree, HierarchicalSpatialIndex and     *)
(* SimulatedAnnealingOptimizer.  Coordinates are integers; the quadtree    *)
(* world is a power of two wide so that halving a boundary is exact, as it *)
(* is for the doubles of the source.                                       *)
(***************************************************************************)
EXTENDS Integers, Sequences, FiniteSets, TLC

VARIABLES
    qt,         \* the QuadTree under test: root node, object_count, capacity, max_depth
    qt_S,       \* history: the sequence of objects whose insert returned true
    qt_update,  \* the outcome of the update call made on the QuadTree
    qt_ops,     \* history: the number of remove, batch_remove and clear calls, what they met
    rt,         \* the RTree under test: root node and object_count
    rt_S,       \* history: the sequence of (object, bbox) pairs handed to RTree::insert
    root_block,     \* HierarchicalSpatialIndex::root_block, the tree of IPBlocks
    block_indices,  \* HierarchicalSpatialIndex::block_indices: name -> [id, tree]
    rtree_indices,  \* HierarchicalSpatialIndex::rtree_indices: name -> RTree
    th,             \* per thread: its position in bulk_insert and its locals
    tree_mutex,     \* ids of the QuadTrees whose tree_mutex is held
    hi_next_id,     \* identity given to the next QuadTree that is constructed
    hi_call,        \* the latest call on the index: operation, arguments, outcome
    hi_ncalls,      \* number of calls made on the index
    hi_crashed,     \* the process was brought down by undefined behaviour
    sa,         \* the SimulatedAnnealingOptimizer objects, one per run
    sa_pc,      \* per run: where the program is with its optimizer
    sa_input,   \* per run: the seed std::random_device gave, the config, the calls
    sa_trace,   \* history, per run: the component positions after every step of optimize
    sa_result,  \* per run: the CostResult optimize returned
    sa_build,   \* order in which the build evaluates the two draws of a Point
    sa_begin,   \* history, per run: number of optimize() calls, counters at the latest call
    tp_tasks,     \* ThreadPool::tasks, the queue; a task is the number of its enqueue call
    tp_stop,      \* ThreadPool::stop
    tp_worker,    \* per worker thread: its position in the worker loop and its task
    tp_producer,  \* the thread that calls enqueue: its position in enqueue
    tp_waiter,    \* the thread that calls wait_for_completion: its position in it
    tp_dtor,      \* the position of the owner in ~ThreadPool
    tp_enq,       \* history: the outcome of every enqueue call, in call order
    tp_done,      \* history: the tasks that ran to completion
    pg,         \* the latest query on a Polygon: the polygon, the point, the two answers
    zo,         \* the latest ZOrderCurve round trip: the coordinates, the key, the decoded pair
    lib         \* the library globals g_initialized and g_openmp_enabled, the build, the calls made

qtvars == <<qt, qt_S, qt_update, qt_ops>>
rtvars == <<rt, rt_S>>
hivars == <<root_block, block_indices, rtree_indices, th, tree_mutex,
            hi_next_id, hi_call, hi_ncalls, hi_crashed>>

savars == <<sa, sa_pc, sa_input, sa_trace, sa_result, sa_build, sa_begin>>

tpvars == <<tp_tasks, tp_stop, tp_worker, tp_producer, tp_waiter, tp_dtor, tp_enq, tp_done>>

libvars == <<pg, zo, lib>>

vars == <<qt, qt_S, qt_update, qt_ops, rt, rt_S, root_block, block_indices, rtree_indices, th,
          tree_mutex, hi_next_id, hi_call, hi_ncalls, hi_crashed,
          sa, sa_pc, sa_input, sa_trace, sa_result, sa_build, sa_begin,
          tp_tasks, tp_stop, tp_worker, tp_producer, tp_waiter, tp_dtor, tp_enq, tp_done,
          pg, zo, lib>>

-----------------------------------------------------------------------------
(* geometry::Rectangle                                                     *)

Rect(x, y, w, h) == [x |-> x, y |-> y, width |-> w, height |-> h]

\* Rectangle::intersects: strict, touching edges do not intersect
Intersects(r, other) ==
    ~(other.x >= r.x + r.width \/ other.x + other.width <= r.x \/
      other.y >= r.y + r.height \/ other.y + other.height <= r.y)

\* Rectangle::is_empty: width or height below Point::TOLERANCE, which for
\* the integer coordinates of the model means zero
IsEmpty(r) == r.width < 1 \/ r.height < 1

\* Rectangle::area
Area(r) == r.width * r.height

Min(a, b) == IF a < b THEN a ELSE b
Max(a, b) == IF a > b THEN a ELSE b

\* Rectangle::union_with
UnionWith(r, other) ==
    IF IsEmpty(r) THEN other
    ELSE IF IsEmpty(other) THEN r
    ELSE LET left == Min(r.x, other.x)
             right == Max(r.x + r.width, other.x + other.width)
             bottom == Min(r.y, other.y)
             top == Max(r.y + r.height, other.y + other.height)
         IN  Rect(left, bottom, right - left, top - bottom)

\* Rectangle::contains_point: inclusive of the boundary
ContainsPoint(r, point) ==
    /\ point.x >= r.x /\ point.x <= r.x + r.width
    /\ point.y >= r.y /\ point.y <= r.y + r.height

\* Rectangle::contains_rectangle: inclusive of the boundary
ContainsRectangle(r, other) ==
    /\ other.x >= r.x
    /\ other.y >= r.y
    /\ other.x + other.width <= r.x + r.width
    /\ other.y + other.height <= r.y + r.height

-----------------------------------------------------------------------------
(* Sequence helpers                                                        *)

Range(s) == {s[i] : i \in 1..Len(s)}

\* number of occurrences of e in sequence s
Count(s, e) == Cardinality({i \in 1..Len(s) : s[i] = e})

\* two sequences hold the same elements with the same multiplicities
SameBag(s, t) ==
    /\ Len(s) = Len(t)
    /\ \A e \in Range(s) \cup Range(t) : Count(s, e) = Count(t, e)

-----------------------------------------------------------------------------
(* QuadTree inputs                                                         *)

\* the square world handed to the QuadTree constructor
QTWorld == Rect(0, 0, 8, 8)

\* the objects offered to insert, each with the bounding box get_bbox gives:
\* 1 lies in the NW quadrant, 2 straddles NW and NE, 3 covers all four
\* quadrants, 4 lies in SE, 5 is a zero-width box on the vertical split line,
\* 6 lies outside the world
QTObjBox ==
    <<Rect(1, 5, 1, 1), Rect(3, 5, 2, 1), Rect(1, 1, 6, 6),
      Rect(5, 1, 1, 1), Rect(4, 2, 0, 4), Rect(9, 9, 1, 1)>>

QTObjects == 1..Len(QTObjBox)

\* the get_bbox callback handed to the tree
BBox(obj) == QTObjBox[obj]

\* query rectangles: the world, its four quadrants, and two small
\* windows
QTRanges ==
    {Rect(0, 0, 8, 8), Rect(0, 4, 4, 4), Rect(4, 4, 4, 4), Rect(0, 0, 4, 4),
     Rect(4, 0, 4, 4), Rect(5, 5, 2, 2), Rect(1, 1, 2, 2)}

\* default arguments of the QuadTree constructor
DefaultCapacity == 10
DefaultMaxDepth == 8

MaxCapacity == 2
MaxDepthChoice == 2
MaxInserts == 4

\* number of remove, batch_remove and clear calls made on the tree
MaxRemovals == 2

\* a program that also removes objects inserts while the tree holds fewer
\* objects than this
MaxStored == 2

\* the vectors handed to batch_insert and batch_remove
QTBatches == {<<1, 6>>, <<3, 2, 3>>}

\* the points handed to query_point: the grid points of the world, among them
\* the corners and edges of the bounding boxes and the split lines
QTPoints == [x : 0..8, y : 0..8]

\* the zero-area rectangle at a point
PointRange(point) == Rect(point.x, point.y, 0, 0)

-----------------------------------------------------------------------------
(* QuadTreeNode                                                            *)

\* QuadTreeNode constructor
NewNode(boundary, depth) ==
    [boundary |-> boundary, objects |-> <<>>, divided |-> FALSE,
     children |-> <<>>, depth |-> depth]

\* subdivide with the children two levels below the node
SubdivideDeeper(node) ==
    LET x == node.boundary.x
        y == node.boundary.y
        w == node.boundary.width \div 2
        h == node.boundary.height \div 2
    IN  [node EXCEPT
            !.children = <<NewNode(Rect(x, y + h, w, h), node.depth + 2),
                           NewNode(Rect(x + w, y + h, w, h), node.depth + 2),
                           NewNode(Rect(x, y, w, h), node.depth + 2),
                           NewNode(Rect(x + w, y, w, h), node.depth + 2)>>,
            !.divided = TRUE]

\* QuadTreeNode::subdivide: children in the order NW, NE, SW, SE
Subdivide(node) ==
    LET x == node.boundary.x
        y == node.boundary.y
        w == node.boundary.width \div 2
        h == node.boundary.height \div 2
    IN  [node EXCEPT
            !.children = <<NewNode(Rect(x, y + h, w, h), node.depth + 1),
                           NewNode(Rect(x + w, y + h, w, h), node.depth + 1),
                           NewNode(Rect(x, y, w, h), node.depth + 1),
                           NewNode(Rect(x + w, y, w, h), node.depth + 1)>>,
            !.divided = TRUE]

\* QuadTreeNode::intersects_boundary
IntersectsBoundary(node, obj) == Intersects(node.boundary, BBox(obj))

\* QuadTreeNode::insert; the result is [ok, node]: the returned bool and the
\* node after the call
RECURSIVE NodeInsert(_, _, _, _)
RECURSIVE InsertIntoChildren(_, _, _, _, _)

\* the loop over children[i] of QuadTreeNode::insert, from child i on: the
\* first child that accepts ends the loop, otherwise the object is stored at
\* this level
InsertIntoChildren(node, obj, capacity, max_depth, i) ==
    IF i > 4
    THEN [ok |-> TRUE, node |-> [node EXCEPT !.objects = Append(@, obj)]]
    ELSE LET r == NodeInsert(node.children[i], obj, capacity, max_depth)
         IN  IF r.ok
             THEN [ok |-> TRUE, node |-> [node EXCEPT !.children[i] = r.node]]
             ELSE InsertIntoChildren(node, obj, capacity, max_depth, i + 1)

NodeInsert(node, obj, capacity, max_depth) ==
    IF ~IntersectsBoundary(node, obj)
    THEN [ok |-> FALSE, node |-> node]
    ELSE IF Len(node.objects) < capacity /\ ~node.divided
    THEN [ok |-> TRUE, node |-> [node EXCEPT !.objects = Append(@, obj)]]
    ELSE LET n1 == IF ~node.divided /\ node.depth < max_depth
                   THEN Subdivide(node) ELSE node
         IN  IF n1.divided
             THEN InsertIntoChildren(n1, obj, capacity, max_depth, 1)
             ELSE [ok |-> TRUE, node |-> [n1 EXCEPT !.objects = Append(@, obj)]]

\* QuadTreeNode::query_range: this node's matching objects, then the children
RECURSIVE NodeQueryRange(_, _)
NodeQueryRange(node, range) ==
    IF ~Intersects(node.boundary, range)
    THEN <<>>
    ELSE LET own == SelectSeq(node.objects, LAMBDA o : Intersects(BBox(o), range))
         IN  IF node.divided
             THEN own \o NodeQueryRange(node.children[1], range)
                      \o NodeQueryRange(node.children[2], range)
                      \o NodeQueryRange(node.children[3], range)
                      \o NodeQueryRange(node.children[4], range)
             ELSE own

\* QuadTreeNode::query_point: this node's matching objects, then the children
RECURSIVE NodeQueryPoint(_, _)
NodeQueryPoint(node, point) ==
    IF ~ContainsPoint(node.boundary, point)
    THEN <<>>
    ELSE LET own == SelectSeq(node.objects, LAMBDA o : ContainsPoint(BBox(o), point))
         IN  IF node.divided
             THEN own \o NodeQueryPoint(node.children[1], point)
                      \o NodeQueryPoint(node.children[2], point)
                      \o NodeQueryPoint(node.children[3], point)
                      \o NodeQueryPoint(node.children[4], point)
             ELSE own

\* std::vector::erase of the first element equal to obj, as std::find gives it
EraseFirst(objects, obj) ==
    LET k == CHOOSE i \in 1..Len(objects) :
                 objects[i] = obj /\ \A j \in 1..(i - 1) : objects[j] # obj
    IN  SubSeq(objects, 1, k - 1) \o SubSeq(objects, k + 1, Len(objects))

\* QuadTree::remove_from_node; the result is [ok, node]
RECURSIVE RemoveFromNode(_, _)
RECURSIVE RemoveFromChildren(_, _, _)

\* the loop over children[i] of remove_from_node, from child i on
RemoveFromChildren(node, obj, i) ==
    IF i > 4
    THEN [ok |-> FALSE, node |-> node]
    ELSE LET r == RemoveFromNode(node.children[i], obj)
         IN  IF r.ok
             THEN [ok |-> TRUE, node |-> [node EXCEPT !.children[i] = r.node]]
             ELSE RemoveFromChildren(node, obj, i + 1)

\* remove_from_node without the search of the children
RemoveFromNodeShallow(node, obj) ==
    IF \E i \in 1..Len(node.objects) : node.objects[i] = obj
    THEN [ok |-> TRUE, node |-> [node EXCEPT !.objects = EraseFirst(@, obj)]]
    ELSE [ok |-> FALSE, node |-> node]

RemoveFromNode(node, obj) ==
    IF \E i \in 1..Len(node.objects) : node.objects[i] = obj
    THEN [ok |-> TRUE, node |-> [node EXCEPT !.objects = EraseFirst(@, obj)]]
    ELSE IF node.divided
    THEN RemoveFromChildren(node, obj, 1)
    ELSE [ok |-> FALSE, node |-> node]

\* QuadTreeNode::size
RECURSIVE NodeSize(_)
NodeSize(node) ==
    Len(node.objects) +
    (IF node.divided
     THEN NodeSize(node.children[1]) + NodeSize(node.children[2]) +
          NodeSize(node.children[3]) + NodeSize(node.children[4])
     ELSE 0)

-----------------------------------------------------------------------------
(* QuadTree                                                                *)

\* QuadTree constructor
NewQuadTree(boundary, capacity, max_depth) ==
    [root |-> NewNode(boundary, 0), object_count |-> 0,
     capacity |-> capacity, max_depth |-> max_depth]

\* QuadTree::insert applied to tree t: [ok, tree]
TreeInsert(t, obj) ==
    LET r == NodeInsert(t.root, obj, t.capacity, t.max_depth)
    IN  IF r.ok
        THEN [ok |-> TRUE,
              tree |-> [t EXCEPT !.root = r.node, !.object_count = @ + 1]]
        ELSE [ok |-> FALSE, tree |-> t]

\* QuadTree::query_range
TreeQueryRange(t, range) == NodeQueryRange(t.root, range)

\* QuadTree::query_point
TreeQueryPoint(t, point) == NodeQueryPoint(t.root, point)

\* QuadTreeNode::get_all_objects: this node's objects, then the children's
RECURSIVE NodeAllObjects(_)
NodeAllObjects(node) ==
    node.objects \o
    (IF node.divided
     THEN NodeAllObjects(node.children[1]) \o NodeAllObjects(node.children[2]) \o
          NodeAllObjects(node.children[3]) \o NodeAllObjects(node.children[4])
     ELSE <<>>)

\* the pairs (s[i], s[j]) with i < j, in the order of the two nested loops
RECURSIVE PairsWithin(_)
PairsWithin(s) ==
    IF Len(s) < 2 THEN <<>>
    ELSE [j \in 1..(Len(s) - 1) |-> <<s[1], s[j + 1]>>] \o PairsWithin(Tail(s))

\* the pairs (a, b) with a from s, b from t and intersecting bounding boxes
RECURSIVE PairsBetween(_, _)
PairsBetween(s, t) ==
    IF s = <<>> THEN <<>>
    ELSE LET hits == SelectSeq(t, LAMBDA b : Intersects(BBox(s[1]), BBox(b)))
         IN  [j \in 1..Len(hits) |-> <<s[1], hits[j]>>] \o PairsBetween(Tail(s), t)

\* the pairs of children of a subdivided node, in the order of the loops
ChildPairs == <<<<1, 2>>, <<1, 3>>, <<1, 4>>, <<2, 3>>, <<2, 4>>, <<3, 4>>>>

\* QuadTree::collect_intersection_pairs of quadtree.cpp
RECURSIVE CollectIntersectionPairs(_)
RECURSIVE CrossChildPairs(_, _)

CrossChildPairs(node, k) ==
    IF k > Len(ChildPairs) THEN <<>>
    ELSE PairsBetween(NodeAllObjects(node.children[ChildPairs[k][1]]),
                      NodeAllObjects(node.children[ChildPairs[k][2]]))
             \o CrossChildPairs(node, k + 1)

CollectIntersectionPairs(node) ==
    PairsWithin(node.objects) \o
    (IF node.divided
     THEN CollectIntersectionPairs(node.children[1])
              \o CollectIntersectionPairs(node.children[2])
              \o CollectIntersectionPairs(node.children[3])
              \o CollectIntersectionPairs(node.children[4])
              \o CrossChildPairs(node, 1)
     ELSE <<>>)

\* QuadTree::find_potential_intersections is defined twice: the header
\* returns an empty vector, quadtree.cpp collects the pairs from the root.
\* The two definitions, by the file the build takes it from
FindPotentialIntersections(t, file) ==
    IF file = "quadtree.hpp" THEN <<>> ELSE CollectIntersectionPairs(t.root)

QTSourceFiles == {"quadtree.hpp", "quadtree.cpp"}

\* remove without the decrement of object_count
TreeRemoveUncounted(t, obj) ==
    LET r == RemoveFromNode(t.root, obj)
    IN  IF r.ok
        THEN [ok |-> TRUE, tree |-> [t EXCEPT !.root = r.node]]
        ELSE [ok |-> FALSE, tree |-> t]

\* QuadTree::remove applied to tree t: [ok, tree]
TreeRemove(t, obj) ==
    LET r == RemoveFromNode(t.root, obj)
    IN  IF r.ok
        THEN [ok |-> TRUE,
              tree |-> [t EXCEPT !.root = r.node, !.object_count = @ - 1]]
        ELSE [ok |-> FALSE, tree |-> t]

\* QuadTreeNode::clear
NodeClear(node) == [node EXCEPT !.objects = <<>>, !.children = <<>>, !.divided = FALSE]

\* QuadTree::clear
TreeClear(t) == [t EXCEPT !.root = NodeClear(t.root), !.object_count = 0]

\* QuadTree::batch_insert: [count, tree, accepted], the returned success
\* count, the tree after the call and the objects that were inserted
RECURSIVE TreeBatchInsert(_, _)
TreeBatchInsert(t, objects) ==
    IF objects = <<>>
    THEN [count |-> 0, tree |-> t, accepted |-> <<>>]
    ELSE LET r == NodeInsert(t.root, Head(objects), t.capacity, t.max_depth)
             t1 == IF r.ok
                   THEN [t EXCEPT !.root = r.node, !.object_count = @ + 1]
                   ELSE t
             rest == TreeBatchInsert(t1, Tail(objects))
         IN  IF r.ok
             THEN [count |-> rest.count + 1, tree |-> rest.tree,
                   accepted |-> <<Head(objects)>> \o rest.accepted]
             ELSE rest

\* QuadTree::batch_remove: [count, tree, removed]
RECURSIVE TreeBatchRemove(_, _)
TreeBatchRemove(t, objects) ==
    IF objects = <<>>
    THEN [count |-> 0, tree |-> t, removed |-> <<>>]
    ELSE LET r == RemoveFromNode(t.root, Head(objects))
             t1 == IF r.ok
                   THEN [t EXCEPT !.root = r.node, !.object_count = @ - 1]
                   ELSE t
             rest == TreeBatchRemove(t1, Tail(objects))
         IN  IF r.ok
             THEN [count |-> rest.count + 1, tree |-> rest.tree,
                   removed |-> <<Head(objects)>> \o rest.removed]
             ELSE rest

\* the history s after the objects of removed were erased from it, one
\* occurrence each
RECURSIVE EraseAll(_, _)
EraseAll(s, removed) ==
    IF removed = <<>> THEN s ELSE EraseAll(EraseFirst(s, Head(removed)), Tail(removed))

\* the body of QuadTree::update once the calls it makes get past the lock:
\* remove, and insert when remove found the object
TreeUpdate(t, old_object, new_object) ==
    LET r == TreeRemove(t, old_object)
    IN  IF r.ok THEN TreeInsert(r.tree, new_object) ELSE [ok |-> FALSE, tree |-> t]

\* update holds tree_mutex when it calls remove, which locks tree_mutex again.
\* Locking a std::mutex the thread already owns is undefined: the thread blocks
\* on itself for ever, or lock() throws std::system_error
\* (resource_deadlock_would_occur), or the lock is a no-op and the call goes
\* on, as in a program that is not linked with the thread library
RelockOutcomes == {"blocked", "threw", "returned"}

\* the history of s after old_object was removed and new_object inserted
ReplaceInHistory(s, old_object, new_object) ==
    Append(EraseFirst(s, old_object), new_object)

NoUpdate == [status |-> "none", result |-> FALSE]

NoOps == [removals |-> 0, rejected |-> FALSE, failed |-> FALSE, removed |-> FALSE,
          below |-> FALSE]

QTInit ==
    /\ \E c \in 1..MaxCapacity, d \in 0..MaxDepthChoice :
           qt = NewQuadTree(QTWorld, c, d)
    /\ qt_S = <<>>
    /\ qt_update = NoUpdate
    /\ qt_ops = NoOps

\* a tree built with the default capacity and max_depth of the constructor
QTDefault ==
    /\ qt = NewQuadTree(QTWorld, DefaultCapacity, DefaultMaxDepth)
    /\ qt_S = <<>>
    /\ qt_update = NoUpdate
    /\ qt_ops = NoOps

\* a call of QuadTree::insert(obj); the program makes its insert calls first
\* and ends with at most one update call
QTInsert(obj) ==
    /\ qt_update.status = "none"
    /\ Len(qt_S) < MaxInserts
    /\ LET r == TreeInsert(qt, obj)
       IN  /\ qt' = r.tree
           /\ qt_S' = IF r.ok THEN Append(qt_S, obj) ELSE qt_S
    /\ UNCHANGED <<qt_update, qt_ops, rtvars, hivars, savars, tpvars, libvars>>

\* a call of QuadTree::update(old_object, new_object): what the tree is left
\* as depends on what the second lock of tree_mutex does
QTUpdate(old_object, new_object) ==
    /\ qt_update.status = "none"
    /\ \E outcome \in RelockOutcomes :
          IF outcome = "returned"
          THEN LET r == TreeUpdate(qt, old_object, new_object)
               IN  /\ qt' = r.tree
                   /\ qt_S' = IF TreeRemove(qt, old_object).ok
                               THEN IF r.ok
                                    THEN ReplaceInHistory(qt_S, old_object, new_object)
                                    ELSE EraseFirst(qt_S, old_object)
                               ELSE qt_S
                   /\ qt_update' = [status |-> "returned", result |-> r.ok]
          ELSE /\ qt_update' = [status |-> outcome, result |-> FALSE]
               /\ UNCHANGED <<qt, qt_S>>
    /\ UNCHANGED <<qt_ops, rtvars, hivars, savars, tpvars, libvars>>

\* a call of QuadTree::remove(obj)
QTRemove(obj) ==
    /\ qt_update.status = "none"
    /\ qt_ops.removals < MaxRemovals
    /\ LET r == TreeRemove(qt, obj)
       IN  /\ qt' = r.tree
           /\ qt_S' = IF r.ok THEN EraseFirst(qt_S, obj) ELSE qt_S
           /\ qt_ops' = [qt_ops EXCEPT !.removals = @ + 1, !.failed = @ \/ ~r.ok,
                                        !.removed = @ \/ r.ok,
                                        !.below = @ \/ (r.ok /\ obj \notin Range(qt.root.objects))]
    /\ UNCHANGED <<qt_update, rtvars, hivars, savars, tpvars, libvars>>

\* a call of QuadTree::batch_insert(objects)
QTBatchInsert(objects) ==
    /\ qt_update.status = "none"
    /\ Len(qt_S) < MaxStored
    /\ LET r == TreeBatchInsert(qt, objects)
       IN  /\ qt' = r.tree
           /\ qt_S' = qt_S \o r.accepted
           /\ qt_ops' = [qt_ops EXCEPT !.rejected = @ \/ r.count < Len(objects)]
    /\ UNCHANGED <<qt_update, rtvars, hivars, savars, tpvars, libvars>>

\* a call of QuadTree::batch_remove(objects)
QTBatchRemove(objects) ==
    /\ qt_update.status = "none"
    /\ qt_ops.removals < MaxRemovals
    /\ LET r == TreeBatchRemove(qt, objects)
       IN  /\ qt' = r.tree
           /\ qt_S' = EraseAll(qt_S, r.removed)
           /\ qt_ops' = [qt_ops EXCEPT !.removals = @ + 1,
                                        !.failed = @ \/ r.count < Len(objects),
                                        !.removed = @ \/ r.count > 0]
    /\ UNCHANGED <<qt_update, rtvars, hivars, savars, tpvars, libvars>>

\* a call of QuadTree::clear()
QTClear ==
    /\ qt_update.status = "none"
    /\ qt_ops.removals < MaxRemovals
    /\ qt' = TreeClear(qt)
    /\ qt_S' = <<>>
    /\ qt_ops' = [qt_ops EXCEPT !.removals = @ + 1]
    /\ UNCHANGED <<qt_update, rtvars, hivars, savars, tpvars, libvars>>

\* the calls that change the set of stored objects
QTOpsNext ==
    \/ \E obj \in QTObjects : Len(qt_S) < MaxStored /\ QTInsert(obj)
    \/ \E obj \in QTObjects : QTRemove(obj)
    \/ \E objects \in QTBatches : QTBatchInsert(objects)
    \/ \E objects \in QTBatches : QTBatchRemove(objects)
    \/ QTClear

QTNext ==
    \/ \E obj \in QTObjects : QTInsert(obj)
    \/ \E old_object, new_object \in QTObjects : QTUpdate(old_object, new_object)

-----------------------------------------------------------------------------
(* RTreeNode and RTree                                                     *)

\* RTreeNode::MAX_ENTRIES
MAX_ENTRIES == 16

\* the bounding boxes offered to RTree::insert: a zero-width box and a
\* box of positive area that lies apart from it
RTBoxes == {Rect(1, 1, 0, 2), Rect(4, 4, 2, 2)}

\* query rectangles: around the degenerate box, around the other box, both
RTRanges == {Rect(0, 0, 3, 4), Rect(3, 3, 4, 4), Rect(0, 0, 8, 8)}

MaxRTInserts == 17

\* RTreeNode constructor
NewRTreeNode(leaf) ==
    [mbr |-> Rect(0, 0, 0, 0), entries |-> <<>>, children |-> <<>>, is_leaf |-> leaf]

\* RTreeNode::is_full
IsFull(node) == Len(node.entries) >= MAX_ENTRIES

\* the loop of RTreeNode::update_mbr: boxes[1] united with boxes[2..i]
RECURSIVE UnionAll(_, _)
UnionAll(boxes, i) ==
    IF i = 1 THEN boxes[1] ELSE UnionWith(UnionAll(boxes, i - 1), boxes[i])

\* RTreeNode::update_mbr
UpdateMbr(node) ==
    IF node.entries = <<>> /\ node.children = <<>>
    THEN [node EXCEPT !.mbr = Rect(0, 0, 0, 0)]
    ELSE IF node.is_leaf
    THEN [node EXCEPT !.mbr =
            UnionAll([i \in 1..Len(node.entries) |-> node.entries[i].bbox],
                     Len(node.entries))]
    ELSE [node EXCEPT !.mbr =
            UnionAll([i \in 1..Len(node.children) |-> node.children[i].mbr],
                     Len(node.children))]

\* RTree::calculate_area_increase
CalculateAreaIncrease(current, new_rect) ==
    Area(UnionWith(current, new_rect)) - Area(current)

\* the child-selection loop of RTree::insert_recursive: the first child with
\* the least area increase
BestChild(node, bbox) ==
    LET inc(i) == CalculateAreaIncrease(node.children[i].mbr, bbox)
    IN  CHOOSE i \in 1..Len(node.children) :
            \A j \in 1..Len(node.children) :
                inc(i) < inc(j) \/ (inc(i) = inc(j) /\ i <= j)

\* RTree::split_node: [node, sibling], the second half of the entries (or of
\* the children) moves to the sibling
SplitNode(node) ==
    LET n == IF node.is_leaf THEN Len(node.entries) ELSE Len(node.children)
        mid == n \div 2
        kept == IF node.is_leaf
                THEN [node EXCEPT !.entries = SubSeq(@, 1, mid)]
                ELSE [node EXCEPT !.children = SubSeq(@, 1, mid)]
        moved == IF node.is_leaf
                 THEN [NewRTreeNode(TRUE) EXCEPT
                          !.entries = SubSeq(node.entries, mid + 1, n)]
                 ELSE [NewRTreeNode(FALSE) EXCEPT
                          !.children = SubSeq(node.children, mid + 1, n)]
    IN  [node |-> UpdateMbr(kept), sibling |-> UpdateMbr(moved)]

\* RTree::insert_recursive: the node after the call
RECURSIVE InsertRecursive(_, _, _)
InsertRecursive(node, object, bbox) ==
    IF node.is_leaf
    THEN UpdateMbr([node EXCEPT
            !.entries = Append(@, [object |-> object, bbox |-> bbox])])
    ELSE LET b1 == BestChild(node, bbox)
             n1 == IF IsFull(node.children[b1])
                   THEN LET sp == SplitNode(node.children[b1])
                        IN  [node EXCEPT
                                !.children = Append([@ EXCEPT ![b1] = sp.node],
                                                    sp.sibling)]
                   ELSE node
             b2 == BestChild(n1, bbox)
         IN  UpdateMbr([n1 EXCEPT
                 !.children[b2] = InsertRecursive(@, object, bbox)])

\* RTree::insert applied to tree t
RTreeInsert(t, object, bbox) ==
    LET r1 == IF IsFull(t.root) /\ ~t.root.is_leaf
              THEN LET sp == SplitNode(t.root)
                   IN  UpdateMbr([NewRTreeNode(FALSE) EXCEPT
                           !.children = <<sp.node, sp.sibling>>])
              ELSE t.root
    IN  [root |-> InsertRecursive(r1, object, bbox),
         object_count |-> t.object_count + 1]

\* RTree::query_recursive: the objects appended to result
RECURSIVE QueryRecursive(_, _)
RECURSIVE QueryChildren(_, _, _)
QueryChildren(node, range, i) ==
    IF i > Len(node.children) THEN <<>>
    ELSE QueryRecursive(node.children[i], range) \o QueryChildren(node, range, i + 1)

QueryRecursive(node, range) ==
    IF ~Intersects(node.mbr, range)
    THEN <<>>
    ELSE IF node.is_leaf
    THEN LET hits == SelectSeq(node.entries, LAMBDA e : Intersects(e.bbox, range))
         IN  [i \in 1..Len(hits) |-> hits[i].object]
    ELSE QueryChildren(node, range, 1)

\* RTree::query_range
RTreeQueryRange(t, range) == QueryRecursive(t.root, range)

\* every node of the subtree under node
RECURSIVE RTreeNodes(_)
RTreeNodes(node) ==
    {node} \cup UNION {RTreeNodes(node.children[i]) : i \in 1..Len(node.children)}

\* RTree constructor
RTInit ==
    /\ rt = [root |-> NewRTreeNode(TRUE), object_count |-> 0]
    /\ rt_S = <<>>

\* a call of RTree::insert(object, bbox); the object is the serial number of
\* the call
RTInsert(bbox) ==
    /\ Len(rt_S) < MaxRTInserts
    /\ LET object == Len(rt_S) + 1
       IN  /\ rt' = RTreeInsert(rt, object, bbox)
           /\ rt_S' = Append(rt_S, [object |-> object, bbox |-> bbox])
    /\ UNCHANGED <<qtvars, hivars, savars, tpvars, libvars>>

RTNext == \E bbox \in RTBoxes : RTInsert(bbox)

-----------------------------------------------------------------------------
(* ZOrderCurve, on a grid of ZBits bits per axis                           *)

\* bits kept per axis by the quantisation of encode_point (the source keeps
\* 32; the model keeps fewer so that a key fits a TLC integer)
ZBits == 8

\* highest bit position the bit operations look at: the widest intermediate
\* of the cascade is a coordinate shifted left by 16
ZTopBit == ZBits + 16

RECURSIVE Pow2(_)
Pow2(n) == IF n = 0 THEN 1 ELSE 2 * Pow2(n - 1)

BitAt(v, i) == (v \div Pow2(i)) % 2

\* one line of the mask cascade, bits top..0 of it: bit i of
\* (result | (result << shift)) & mask, the mask having the bits i with
\* (i \div group) even
RECURSIVE SpreadBits(_, _, _, _)
SpreadBits(result, shift, group, top) ==
    IF top < 0 THEN 0
    ELSE (IF (top \div group) % 2 = 0 /\
             (BitAt(result, top) = 1 \/ (top >= shift /\ BitAt(result, top - shift) = 1))
          THEN Pow2(top) ELSE 0)
         + SpreadBits(result, shift, group, top - 1)

\* one line of the mask cascade: (result | (result << shift)) & mask
SpreadStep(result, shift, group) == SpreadBits(result, shift, group, ZTopBit)

\* ZOrderCurve::interleave
Interleave(x) ==
    SpreadStep(SpreadStep(SpreadStep(SpreadStep(SpreadStep(x, 16, 16), 8, 8), 4, 4), 2, 2), 1, 1)

\* ZOrderCurve::encode
Encode(x, y) == Interleave(x) + 2 * Interleave(y)

\* ZOrderCurve::encode_point for the centre of bbox: the centre is
\* (2x + width) / 2, so the quotient is taken over twice the bounds' side
EncodeCenter(bbox, bounds) ==
    LET scale == Pow2(ZBits) - 1
        qx == ((2 * bbox.x + bbox.width - 2 * bounds.x) * scale) \div (2 * bounds.width)
        qy == ((2 * bbox.y + bbox.height - 2 * bounds.y) * scale) \div (2 * bounds.height)
    IN  Encode(qx, qy)

-----------------------------------------------------------------------------
(* IPBlock and HierarchicalSpatialIndex                                    *)

\* capacity and max_depth create_block_index gives the QuadTree of a block
BlockCapacity == 100
BlockMaxDepth == 8

\* thread 0 is the caller; 1..NumThreads are the workers of the thread pool
NumThreads == 2
Threads == 0..NumThreads

\* names and boundaries offered to create_ip_block
BlockNames == {"A", "B"}
ParentNames == {"root", "A", "B"}
BlockBounds == {Rect(0, 4, 4, 4), Rect(0, 0, 8, 4)}

\* object lists offered to bulk_insert and parallel_bulk_insert
BulkInputs == {<<1>>, <<4, 1>>}

MaxHierCalls == 3

\* IPBlock constructor
NewBlock(name, boundary, level) ==
    [name |-> name, boundary |-> boundary, level |-> level, sub_blocks |-> <<>>]

\* IPBlock::contains
BlockContains(block, rect) == ContainsRectangle(block.boundary, rect)

\* IPBlock::intersects
BlockIntersects(block, rect) == Intersects(block.boundary, rect)

\* the blocks under block (itself included) in depth-first order
RECURSIVE BlockList(_)
RECURSIVE BlockListFrom(_, _)
BlockListFrom(subs, i) ==
    IF i > Len(subs) THEN <<>> ELSE BlockList(subs[i]) \o BlockListFrom(subs, i + 1)

BlockList(block) == <<block>> \o BlockListFrom(block.sub_blocks, 1)

\* the search lambda of find_block: the path (child positions from block
\* down) of the first block named target_name in depth-first order, or
\* <<0>> for nullptr
RECURSIVE Search(_, _)
RECURSIVE SearchSubs(_, _, _)
SearchSubs(block, target_name, i) ==
    IF i > Len(block.sub_blocks) THEN <<0>>
    ELSE LET found == Search(block.sub_blocks[i], target_name)
         IN  IF found # <<0>> THEN <<i>> \o found
             ELSE SearchSubs(block, target_name, i + 1)

Search(block, target_name) ==
    IF block.name = target_name THEN <<>>
    ELSE SearchSubs(block, target_name, 1)

\* find_block answering the root for a name that matches no block
FindBlockOrRoot(root, name) ==
    IF name = "root" \/ Search(root, name) = <<0>> THEN <<>> ELSE Search(root, name)

\* HierarchicalSpatialIndex::find_block
FindBlock(root, name) ==
    IF name = "root" THEN <<>> ELSE Search(root, name)

\* the block a path returned by find_block points to
RECURSIVE BlockAt(_, _)
BlockAt(block, path) ==
    IF path = <<>> THEN block ELSE BlockAt(block.sub_blocks[Head(path)], Tail(path))

\* IPBlock::add_sub_block on the block a path points to
RECURSIVE AddSubBlock(_, _, _)
AddSubBlock(block, path, new_block) ==
    IF path = <<>>
    THEN [block EXCEPT !.sub_blocks = Append(@, new_block)]
    ELSE [block EXCEPT !.sub_blocks[Head(path)] =
              AddSubBlock(@, Tail(path), new_block)]

\* find_optimal_block: the smallest block whose boundary contains bbox,
\* the root when none does
FindOptimalBlock(root, bbox) ==
    LET blocks == BlockList(root)
        fits == {i \in 1..Len(blocks) : BlockContains(blocks[i], bbox)}
    IN  IF fits = {} THEN "root"
        ELSE blocks[CHOOSE i \in fits :
                        \A j \in fits :
                            \/ Area(blocks[i].boundary) < Area(blocks[j].boundary)
                            \/ /\ Area(blocks[i].boundary) = Area(blocks[j].boundary)
                               /\ i <= j].name

\* a function with key k set to v, k added to the domain when new
MapPut(m, k, v) == [x \in DOMAIN m \cup {k} |-> IF x = k THEN v ELSE m[x]]

EmptyMap == [x \in {} |-> 0]

\* HierarchicalSpatialIndex::create_block_index: both maps after the call;
\* an index already registered under block_name is replaced
CreateBlockIndex(indices, rtrees, block_name, boundary, id) ==
    [block_indices |->
        MapPut(indices, block_name,
               [id |-> id, tree |-> NewQuadTree(boundary, BlockCapacity, BlockMaxDepth)]),
     rtree_indices |->
        MapPut(rtrees, block_name, [root |-> NewRTreeNode(TRUE), object_count |-> 0])]

IdleThread == [pc |-> "idle", chunk |-> <<>>, i |-> 1, block_name |-> "", tree |-> 0]

\* no bulk_insert is running
Quiet == \A t \in Threads : th[t].pc \in {"idle", "done"}

\* HierarchicalSpatialIndex constructor
HIInit ==
    /\ root_block = NewBlock("root", QTWorld, 0)
    /\ block_indices = EmptyMap
    /\ rtree_indices = EmptyMap
    /\ th = [t \in Threads |-> IdleThread]
    /\ tree_mutex = {}
    /\ hi_next_id = 1
    /\ hi_call = [op |-> "none"]
    /\ hi_ncalls = 0
    /\ hi_crashed = FALSE

\* HierarchicalSpatialIndex::create_ip_block: the members after the call and
\* the outcome
CreateIpBlockResult(root, indices, rtrees, name, boundary, parent_name, id) ==
    LET parent == FindBlock(root, parent_name)
    IN  IF parent = <<0>>
        THEN [result |-> "BlockNotFound", root_block |-> root,
              block_indices |-> indices, rtree_indices |-> rtrees]
        ELSE LET new_block == NewBlock(name, boundary, BlockAt(root, parent).level + 1)
                 maps == CreateBlockIndex(indices, rtrees, name, boundary, id)
             IN  [result |-> "ok",
                  root_block |-> AddSubBlock(root, parent, new_block),
                  block_indices |-> maps.block_indices,
                  rtree_indices |-> maps.rtree_indices]

\* a call of create_ip_block(name, boundary, parent_name)
CreateIpBlock(name, boundary, parent_name) ==
    /\ Quiet /\ ~hi_crashed
    /\ hi_ncalls < MaxHierCalls
    /\ LET r == CreateIpBlockResult(root_block, block_indices, rtree_indices,
                                    name, boundary, parent_name, hi_next_id)
       IN  /\ root_block' = r.root_block
           /\ block_indices' = r.block_indices
           /\ rtree_indices' = r.rtree_indices
           /\ hi_next_id' = IF r.result = "ok" THEN hi_next_id + 1 ELSE hi_next_id
           /\ hi_call' = [op |-> "create_ip_block", name |-> name,
                          parent_name |-> parent_name, result |-> r.result]
    /\ hi_ncalls' = hi_ncalls + 1
    /\ th' = [t \in Threads |-> IdleThread]
    /\ UNCHANGED <<tree_mutex, hi_crashed, qtvars, rtvars, savars, tpvars, libvars>>

\* the orders std::sort may leave a chunk in: ascending Z-order key of the
\* bbox centre, objects with equal keys in any order
SortedChunks(chunk) ==
    LET n == Len(chunk)
        key(o) == EncodeCenter(BBox(o), QTWorld)
        perms == {p \in [1..n -> 1..n] : \A i, j \in 1..n : i # j => p[i] # p[j]}
    IN  {[i \in 1..n |-> chunk[p[i]]] : p \in
            {q \in perms : \A i \in 1..(n - 1) : key(chunk[q[i]]) <= key(chunk[q[i + 1]])}}

\* a call of bulk_insert(objects) by the caller's thread
BulkInsert(objects) ==
    /\ Quiet /\ ~hi_crashed
    /\ hi_ncalls < MaxHierCalls
    /\ th' = [t \in Threads |->
                IF t = 0 THEN [IdleThread EXCEPT !.pc = "sort", !.chunk = objects]
                ELSE IdleThread]
    /\ hi_call' = [op |-> "bulk_insert", input |-> objects, result |-> "running"]
    /\ hi_ncalls' = hi_ncalls + 1
    /\ UNCHANGED <<root_block, block_indices, rtree_indices, tree_mutex,
                   hi_next_id, hi_crashed, qtvars, rtvars, savars, tpvars, libvars>>

\* the chunk parallel_bulk_insert hands to its task number i (from 0), empty
\* when the loop breaks before it
ChunkOf(objects, i) ==
    LET chunk_size == (Len(objects) + NumThreads - 1) \div NumThreads
        start == i * chunk_size
        end == Min(start + chunk_size, Len(objects))
    IN  IF start >= Len(objects) THEN <<>> ELSE SubSeq(objects, start + 1, end)

\* a call of parallel_bulk_insert(objects): one task per chunk is enqueued
ParallelBulkInsert(objects) ==
    /\ Quiet /\ ~hi_crashed
    /\ hi_ncalls < MaxHierCalls
    /\ th' = [t \in Threads |->
                IF t >= 1 /\ ChunkOf(objects, t - 1) # <<>>
                THEN [IdleThread EXCEPT !.pc = "sort", !.chunk = ChunkOf(objects, t - 1)]
                ELSE IdleThread]
    /\ hi_call' = [op |-> "parallel_bulk_insert", input |-> objects, result |-> "running"]
    /\ hi_ncalls' = hi_ncalls + 1
    /\ UNCHANGED <<root_block, block_indices, rtree_indices, tree_mutex,
                   hi_next_id, hi_crashed, qtvars, rtvars, savars, tpvars, libvars>>

\* bulk_insert on thread t: the copy of the chunk is sorted
TSort(t) ==
    /\ ~hi_crashed
    /\ th[t].pc = "sort"
    /\ \E sorted \in SortedChunks(th[t].chunk) :
           th' = [th EXCEPT ![t].pc = "find", ![t].chunk = sorted]
    /\ UNCHANGED <<root_block, block_indices, rtree_indices, tree_mutex,
                   hi_next_id, hi_call, hi_ncalls, hi_crashed, qtvars, rtvars, savars, tpvars, libvars>>

\* bulk_insert on thread t: the loop head, find_optimal_block and the
\* block_indices.find test for the next object
TFind(t) ==
    /\ ~hi_crashed
    /\ th[t].pc = "find"
    /\ IF th[t].i > Len(th[t].chunk)
       THEN th' = [th EXCEPT ![t].pc = "done"]
       ELSE LET block_name == FindOptimalBlock(root_block, BBox(th[t].chunk[th[t].i]))
            IN  th' = [th EXCEPT
                         ![t].block_name = block_name,
                         ![t].pc = IF block_name \notin DOMAIN block_indices
                                   THEN "create" ELSE "insert"]
    /\ UNCHANGED <<root_block, block_indices, rtree_indices, tree_mutex,
                   hi_next_id, hi_call, hi_ncalls, hi_crashed, qtvars, rtvars, savars, tpvars, libvars>>

\* bulk_insert on thread t enters create_block_index
TCreateBegin(t) ==
    /\ ~hi_crashed
    /\ th[t].pc = "create"
    /\ th' = [th EXCEPT ![t].pc = "creating"]
    /\ UNCHANGED <<root_block, block_indices, rtree_indices, tree_mutex,
                   hi_next_id, hi_call, hi_ncalls, hi_crashed, qtvars, rtvars, savars, tpvars, libvars>>

\* create_block_index(block_name, bbox) on thread t stores the new indexes
TCreateEnd(t) ==
    /\ ~hi_crashed
    /\ th[t].pc = "creating"
    /\ LET maps == CreateBlockIndex(block_indices, rtree_indices, th[t].block_name,
                                    BBox(th[t].chunk[th[t].i]), hi_next_id)
       IN  /\ block_indices' = maps.block_indices
           /\ rtree_indices' = maps.rtree_indices
    /\ hi_next_id' = hi_next_id + 1
    /\ th' = [th EXCEPT ![t].pc = "insert"]
    /\ UNCHANGED <<root_block, tree_mutex, hi_call, hi_ncalls, hi_crashed,
                   qtvars, rtvars, savars, tpvars, libvars>>

\* block_indices[block_name]->insert on thread t: QuadTree::insert takes the
\* tree_mutex of the tree it was called on
TLock(t) ==
    /\ ~hi_crashed
    /\ th[t].pc = "insert"
    /\ LET id == block_indices[th[t].block_name].id
       IN  /\ id \notin tree_mutex
           /\ tree_mutex' = tree_mutex \cup {id}
           /\ th' = [th EXCEPT ![t].pc = "locked", ![t].tree = id]
    /\ UNCHANGED <<root_block, block_indices, rtree_indices, hi_next_id,
                   hi_call, hi_ncalls, hi_crashed, qtvars, rtvars, savars, tpvars, libvars>>

\* the tree thread t has locked is still the one registered for its block
TreeAlive(t) ==
    /\ th[t].block_name \in DOMAIN block_indices
    /\ block_indices[th[t].block_name].id = th[t].tree

\* QuadTree::insert on thread t: root->insert, object_count, unlock.  When
\* another thread has replaced (and so destroyed) the tree meanwhile, the
\* write goes to freed memory and is lost
TInsert(t) ==
    /\ ~hi_crashed
    /\ th[t].pc = "locked"
    /\ block_indices' =
          IF TreeAlive(t)
          THEN [block_indices EXCEPT ![th[t].block_name].tree =
                   TreeInsert(@, th[t].chunk[th[t].i]).tree]
          ELSE block_indices
    /\ tree_mutex' = tree_mutex \ {th[t].tree}
    /\ th' = [th EXCEPT ![t].pc = "find", ![t].i = @ + 1, ![t].tree = 0]
    /\ UNCHANGED <<root_block, rtree_indices, hi_next_id, hi_call, hi_ncalls,
                   hi_crashed, qtvars, rtvars, savars, tpvars, libvars>>

\* undefined behaviour brings the process down: thread t writes the maps in
\* create_block_index while thread u reads or writes them, or thread t
\* inserts into a tree that was destroyed
Crash(t) ==
    /\ ~hi_crashed
    /\ \/ /\ th[t].pc = "creating"
          /\ \E u \in Threads \ {t} : th[u].pc \in {"creating", "find", "insert"}
       \/ /\ th[t].pc = "locked"
          /\ ~TreeAlive(t)
    /\ hi_crashed' = TRUE
    /\ UNCHANGED <<root_block, block_indices, rtree_indices, th, tree_mutex,
                   hi_next_id, hi_call, hi_ncalls, qtvars, rtvars, savars, tpvars, libvars>>

\* bulk_insert returns, or every future of parallel_bulk_insert is ready
BulkReturn ==
    /\ ~hi_crashed
    /\ hi_call.op \in {"bulk_insert", "parallel_bulk_insert"}
    /\ hi_call.result = "running"
    /\ \A t \in Threads : th[t].pc \in {"idle", "done"}
    /\ hi_call' = [hi_call EXCEPT !.result = "returned"]
    /\ UNCHANGED <<root_block, block_indices, rtree_indices, th, tree_mutex,
                   hi_next_id, hi_ncalls, hi_crashed, qtvars, rtvars, savars, tpvars, libvars>>

\* std::sort of the collected results
RECURSIVE StdSort(_)
StdSort(s) ==
    IF s = <<>> THEN <<>>
    ELSE LET m == CHOOSE x \in Range(s) : \A y \in Range(s) : x <= y
             k == CHOOSE i \in 1..Len(s) : s[i] = m
         IN  <<m>> \o StdSort(SubSeq(s, 1, k - 1) \o SubSeq(s, k + 1, Len(s)))

\* std::unique followed by erase: of each run of equal neighbours the first
\* is kept
Unique(s) ==
    SelectSeq([i \in 1..Len(s) |-> IF i > 1 /\ s[i] = s[i - 1] THEN 0 ELSE s[i]],
              LAMBDA x : x # 0)

\* dispatch_parallel_queries and the loop over the futures: the results of
\* the blocks that intersect range, blocks taken in the order names gives
RECURSIVE DispatchParallelQueries(_, _, _, _)
DispatchParallelQueries(root, indices, names, range) ==
    IF names = <<>> THEN <<>>
    ELSE LET block == FindBlock(root, Head(names))
             part == IF block # <<0>> /\ BlockIntersects(BlockAt(root, block), range)
                     THEN TreeQueryRange(indices[Head(names)].tree, range)
                     ELSE <<>>
         IN  part \o DispatchParallelQueries(root, indices, Tail(names), range)

\* parallel_query_range without the std::unique pass
ParallelQueryRangeNoUnique(root, indices, names, range) ==
    StdSort(DispatchParallelQueries(root, indices, names, range))

\* parallel_query_range(range), the map being iterated in the order names
ParallelQueryRange(root, indices, names, range) ==
    Unique(StdSort(DispatchParallelQueries(root, indices, names, range)))

\* the orders in which the unordered block_indices map may be iterated
IterationOrders(indices) ==
    LET n == Cardinality(DOMAIN indices)
    IN  {s \in [1..n -> DOMAIN indices] : \A i, j \in 1..n : i # j => s[i] # s[j]}

HICalls ==
    \/ \E name \in BlockNames, boundary \in BlockBounds, parent_name \in ParentNames :
           CreateIpBlock(name, boundary, parent_name)
    \/ \E objects \in BulkInputs : BulkInsert(objects)
    \/ \E objects \in BulkInputs : ParallelBulkInsert(objects)

HISteps ==
    \E t \in Threads :
        \/ TSort(t)
        \/ TFind(t)
        \/ TCreateBegin(t)
        \/ TCreateEnd(t)
        \/ TLock(t)
        \/ TInsert(t)
        \/ Crash(t)

HINext == HICalls \/ HISteps \/ BulkReturn


-----------------------------------------------------------------------------
(* optimization::SimulatedAnnealingOptimizer                               *)
(* Positions and temperatures are integers on the unit grid.  Partial      *)
(* costs are kept in hundredths and total_cost in thousandths, so that the *)
(* weights 0.4, 0.2, 0.3, 0.1 and min_spacing 0.15 are exact.              *)

\* the optimizers of a single-threaded program, run one after the other
Runs == 1..2

\* values std::random_device hands to the constructor: 0..MaxSeed
MaxSeed == 1

\* number of states of the generator that stands for std::mt19937
RngMod == 16

\* largest config.max_iterations tried
MaxIterations == 4

\* the placement area handed to the constructor
SAArea == Rect(0, 0, 4, 4)

Point(x, y) == [x |-> x, y |-> y]

\* Component::Component: position at the origin, no power, movable
NewComponent(name, shape) ==
    [name |-> name, shape |-> shape, position |-> Point(0, 0),
     power_consumption |-> 0, is_fixed |-> FALSE]

\* Net::Net with driver and sinks filled in: criticality 0, weight 1
NewNet(name, driver_component, sinks) ==
    [name |-> name, driver_component |-> driver_component, sinks |-> sinks,
     criticality |-> 0, weight |-> 1]

\* the components a program registers: a has no position set, b is placed,
\* p is a fixed pad
CompA == [NewComponent("a", Rect(0, 0, 1, 1)) EXCEPT !.power_consumption = 1]
CompB == [NewComponent("b", Rect(0, 0, 1, 1)) EXCEPT !.position = Point(2, 1),
                                                  !.power_consumption = 1]
CompP == [NewComponent("p", Rect(0, 0, 1, 1)) EXCEPT !.position = Point(3, 3),
                                                  !.is_fixed = TRUE]

\* the nets a program registers: a critical net and a net with a sink that
\* names no component
NetAB == [NewNet("ab", "a", <<"b">>) EXCEPT !.criticality = 1]
NetBX == NewNet("bx", "b", <<"a", "x">>)

\* the registration calls of a program, in their order
SAPrograms ==
    { [components |-> <<CompA, CompB>>, nets |-> <<NetAB>>],
      [components |-> <<CompB, CompA>>, nets |-> <<NetAB>>],
      [components |-> <<CompB, CompP, CompA>>, nets |-> <<NetBX, NetAB>>] }

\* OptimizationConfig: the weights and min_spacing are the defaults; the
\* cooling rate is in hundredths
SAConfigs ==
    { [initial_temperature |-> 4, cooling_rate |-> 75, final_temperature |-> 1,
       max_iterations |-> MaxIterations,
       wirelength_weight |-> 4, timing_weight |-> 2, area_weight |-> 3,
       power_weight |-> 1, min_spacing |-> 15],
      [initial_temperature |-> 2, cooling_rate |-> 50, final_temperature |-> 1,
       max_iterations |-> MaxIterations,
       wirelength_weight |-> 4, timing_weight |-> 2, area_weight |-> 3,
       power_weight |-> 1, min_spacing |-> 15],
      [initial_temperature |-> 3, cooling_rate |-> 75, final_temperature |-> 1,
       max_iterations |-> 2,
       wirelength_weight |-> 4, timing_weight |-> 2, area_weight |-> 3,
       power_weight |-> 1, min_spacing |-> 15] }

\* CostResult, value-initialised
ZeroCost ==
    [total_cost |-> 0, area_cost |-> 0, wirelength_cost |-> 0, timing_cost |-> 0,
     power_cost |-> 0, constraint_violations |-> 0]

\* SimulatedAnnealingOptimizer::SimulatedAnnealingOptimizer; seed is the value
\* std::random_device returned
NewOptimizer(area, config, seed) ==
    [placement_area |-> area, config |-> config, rng |-> seed,
     components |-> <<>>, nets |-> <<>>, component_index |-> EmptyMap,
     current_temperature |-> 0, current_cost |-> ZeroCost, best_cost |-> ZeroCost,
     best_positions |-> <<>>,
     total_moves |-> 0, accepted_moves |-> 0, improved_moves |-> 0,
     old_position |-> Point(0, 0), selected_component |-> 0, iter |-> 0]

\* one step of the generator: a full-period linear congruence on RngMod
\* states stands for the mt19937 recurrence
NextRng(s) == (5 * s + 3) % RngMod

\* std::uniform_int_distribution<size_t>(lo, hi)(rng): the value and the
\* generator after the draw
UniformInt(rng, lo, hi) ==
    LET s == NextRng(rng)
    IN  [value |-> lo + (s * (hi - lo + 1)) \div RngMod, rng |-> s]

\* std::uniform_real_distribution<double>(lo, hi)(rng), on the unit grid
UniformReal(rng, lo, hi) ==
    LET s == NextRng(rng)
    IN  [value |-> lo + (s * (hi - lo + 1)) \div RngMod, rng |-> s]

\* the two draws of Point(dist_x(rng), dist_y(rng)): the order in which the
\* arguments are evaluated is the build's choice
DrawPoint(rng, xlo, xhi, ylo, yhi, build) ==
    IF build = "xy"
    THEN LET dx == UniformReal(rng, xlo, xhi)
             dy == UniformReal(dx.rng, ylo, yhi)
         IN  [x |-> dx.value, y |-> dy.value, rng |-> dy.rng]
    ELSE LET dy == UniformReal(rng, ylo, yhi)
             dx == UniformReal(dy.rng, xlo, xhi)
         IN  [x |-> dx.value, y |-> dy.value, rng |-> dx.rng]

\* SimulatedAnnealingOptimizer::generate_random_position
GenerateRandomPosition(o, build) ==
    LET a == o.placement_area
        d == DrawPoint(o.rng, a.x, a.x + a.width, a.y, a.y + a.height, build)
    IN  [position |-> Point(d.x, d.y), rng |-> d.rng]

\* SimulatedAnnealingOptimizer::add_component
AddComponentTo(o, comp, build) ==
    LET n == Len(o.components) + 1
        o1 == [o EXCEPT !.component_index = MapPut(@, comp.name, n),
                        !.components = Append(@, comp)]
        g == GenerateRandomPosition(o1, build)
    IN  IF comp.position.x = 0 /\ comp.position.y = 0
        THEN [o1 EXCEPT !.components[n].position = g.position, !.rng = g.rng]
        ELSE o1

\* SimulatedAnnealingOptimizer::add_net
AddNetTo(o, net) == [o EXCEPT !.nets = Append(@, net)]

RECURSIVE SumSeq(_)
SumSeq(s) == IF s = <<>> THEN 0 ELSE Head(s) + SumSeq(Tail(s))

\* floor of the square root of n < 2^20, by bisection of lo..hi
RECURSIVE ISqrtIn(_, _, _)
ISqrtIn(n, lo, hi) ==
    IF lo = hi THEN lo
    ELSE LET mid == (lo + hi + 1) \div 2
         IN  IF mid * mid <= n THEN ISqrtIn(n, mid, hi) ELSE ISqrtIn(n, lo, mid - 1)

\* std::sqrt in hundredths, tabulated for the squared lengths that occur in
\* the placement area
SqrtTable == [n \in 0..64 |-> ISqrtIn(10000 * n, 0, 1023)]

\* std::sqrt of dx*dx + dy*dy, in hundredths
Hypot(dx, dy) == SqrtTable[dx * dx + dy * dy]

\* Point::distance_to, in hundredths
PointDistance(p, q) == Hypot(p.x - q.x, p.y - q.y)

\* Rectangle::distance_to(const Rectangle&), in hundredths
RectDistance(r, other) ==
    IF Intersects(r, other) THEN 0
    ELSE LET dx == IF other.x + other.width < r.x THEN r.x - (other.x + other.width)
                   ELSE IF other.x > r.x + r.width THEN other.x - (r.x + r.width)
                   ELSE 0
             dy == IF other.y + other.height < r.y THEN r.y - (other.y + other.height)
                   ELSE IF other.y > r.y + r.height THEN other.y - (r.y + r.height)
                   ELSE 0
         IN  Hypot(dx, dy)

\* component_index.find(name) != component_index.end()
Registered(o, name) == name \in DOMAIN o.component_index

PositionOf(o, name) == o.components[o.component_index[name]].position

\* SimulatedAnnealingOptimizer::calculate_wirelength_cost, in hundredths
CalculateWirelengthCost(o) ==
    SumSeq([n \in 1..Len(o.nets) |->
        LET net == o.nets[n]
        IN  IF ~Registered(o, net.driver_component) THEN 0
            ELSE SumSeq([s \in 1..Len(net.sinks) |->
                     IF ~Registered(o, net.sinks[s]) THEN 0
                     ELSE PointDistance(PositionOf(o, net.driver_component),
                                        PositionOf(o, net.sinks[s]))])
                 * net.weight * (1 + net.criticality)])

\* SimulatedAnnealingOptimizer::calculate_timing_cost, in hundredths; the
\* criticalities of the model are 0 and 1, so criticality > 0.8 is
\* criticality = 1
CalculateTimingCost(o) ==
    SumSeq([n \in 1..Len(o.nets) |->
        LET net == o.nets[n]
        IN  IF net.criticality < 1 \/ ~Registered(o, net.driver_component) THEN 0
            ELSE SumSeq([s \in 1..Len(net.sinks) |->
                     IF ~Registered(o, net.sinks[s]) THEN 0
                     ELSE LET p == PositionOf(o, net.driver_component)
                              q == PositionOf(o, net.sinks[s])
                          IN  100 * ((p.x - q.x) * (p.x - q.x) + (p.y - q.y) * (p.y - q.y))
                              * net.criticality])])

RECURSIVE MinOf(_)
MinOf(s) == IF Len(s) = 1 THEN s[1] ELSE Min(Head(s), MinOf(Tail(s)))

RECURSIVE MaxOf(_)
MaxOf(s) == IF Len(s) = 1 THEN s[1] ELSE Max(Head(s), MaxOf(Tail(s)))

\* SimulatedAnnealingOptimizer::calculate_area_cost, in hundredths
CalculateAreaCost(o) ==
    IF o.components = <<>> THEN 0
    ELSE LET c == o.components
             I == 1..Len(c)
             min_x == MinOf([i \in I |-> c[i].position.x])
             max_x == MaxOf([i \in I |-> c[i].position.x + c[i].shape.width])
             min_y == MinOf([i \in I |-> c[i].position.y])
             max_y == MaxOf([i \in I |-> c[i].position.y + c[i].shape.height])
             total_area == (max_x - min_x) * (max_y - min_y)
             target_area == Area(o.placement_area)
         IN  IF total_area > target_area THEN 100 * (total_area - target_area) ELSE 0

\* the pairs (i, j), i < j, of the double loops over the components
Pairs(o) ==
    {p \in (1..Len(o.components)) \X (1..Len(o.components)) : p[1] < p[2]}

RECURSIVE SumOver(_, _)
SumOver(f, S) ==
    IF S = {} THEN 0 ELSE LET e == CHOOSE e \in S : TRUE IN f[e] + SumOver(f, S \ {e})

\* SimulatedAnnealingOptimizer::calculate_power_cost, in hundredths
CalculatePowerCost(o) ==
    SumOver([p \in Pairs(o) |->
        LET comp1 == o.components[p[1]]
            comp2 == o.components[p[2]]
            distance == PointDistance(comp1.position, comp2.position)
            power_product == comp1.power_consumption * comp2.power_consumption
        IN  IF power_product > 0 /\ distance < 1000
            THEN (10000 * power_product) \div (distance + 100) ELSE 0], Pairs(o))

\* the rectangle a component occupies
ComponentRect(comp) ==
    Rect(comp.position.x, comp.position.y, comp.shape.width, comp.shape.height)

\* SimulatedAnnealingOptimizer::calculate_constraint_violations, in hundredths
CalculateConstraintViolations(o) ==
    SumOver([p \in Pairs(o) |->
        LET distance == RectDistance(ComponentRect(o.components[p[1]]),
                                     ComponentRect(o.components[p[2]]))
        IN  IF distance < o.config.min_spacing
            THEN o.config.min_spacing - distance ELSE 0], Pairs(o))
    + SumSeq([i \in 1..Len(o.components) |->
        IF ~ContainsRectangle(o.placement_area, ComponentRect(o.components[i]))
        THEN 10000 ELSE 0])

\* SimulatedAnnealingOptimizer::evaluate_cost; total_cost in thousandths
EvaluateCost(o) ==
    LET wl == CalculateWirelengthCost(o)
        tc == CalculateTimingCost(o)
        ac == CalculateAreaCost(o)
        pc == CalculatePowerCost(o)
        cv == CalculateConstraintViolations(o)
    IN  [total_cost |-> o.config.wirelength_weight * wl + o.config.timing_weight * tc +
                        o.config.area_weight * ac + o.config.power_weight * pc +
                        10000 * cv,
         area_cost |-> ac, wirelength_cost |-> wl, timing_cost |-> tc,
         power_cost |-> pc, constraint_violations |-> cv]

\* SimulatedAnnealingOptimizer::is_position_valid
IsPositionValid(o, comp_idx, pos) ==
    LET comp == o.components[comp_idx]
        a == o.placement_area
    IN  ~(pos.x < a.x \/ pos.y < a.y \/
          pos.x + comp.shape.width > a.x + a.width \/
          pos.y + comp.shape.height > a.y + a.height)

\* make_random_move: the indices of the components that are not fixed
MovableComponents(o) ==
    SelectSeq([i \in 1..Len(o.components) |-> i], LAMBDA i : ~o.components[i].is_fixed)

\* make_random_move once selected_idx is chosen: remember the old position,
\* draw the displacement, apply the new position when it is valid
ProposeMove(o, selected_idx, build) ==
    LET T == o.current_temperature
        d == DrawPoint(o.rng, -T, T, -T, T, build)
        new_pos == Point(o.components[selected_idx].position.x + d.x,
                         o.components[selected_idx].position.y + d.y)
        o1 == [o EXCEPT !.old_position = o.components[selected_idx].position,
                        !.selected_component = selected_idx,
                        !.rng = d.rng]
    IN  IF IsPositionValid(o1, selected_idx, new_pos)
        THEN [moved |-> TRUE,
              o |-> [o1 EXCEPT !.components[selected_idx].position = new_pos]]
        ELSE [moved |-> FALSE, o |-> o1]

\* SimulatedAnnealingOptimizer::accept_probability: whether the move is
\* accepted, and the generator after the call.  exp(-x) is taken as
\* 1 / (1 + x + x*x/2), x = delta_cost / current_temperature, and as 0 for
\* x > 8; the uniform draw is the midpoint of the generator's cell
AcceptProbability(o, delta_cost) ==
    IF o.current_temperature <= 0 THEN [accept |-> FALSE, rng |-> o.rng]
    ELSE LET s == NextRng(o.rng)
             d == delta_cost \div 100
             D == 10 * o.current_temperature
         IN  [accept |-> d <= 8 * D /\
                         (2 * s + 1) * (2 * D * D + 2 * d * D + d * d) < 4 * RngMod * D * D,
              rng |-> s]

\* reject_move that leaves the proposed position in place
RejectMoveKeep(o) == o

\* SimulatedAnnealingOptimizer::reject_move
RejectMove(o) ==
    IF o.selected_component <= Len(o.components)
    THEN [o EXCEPT !.components[o.selected_component].position = o.old_position]
    ELSE o

Positions(o) == [i \in 1..Len(o.components) |-> o.components[i].position]

\* optimize, lines 31-40: best positions, initial cost, initial temperature
OptimizeEnter(o) ==
    LET c == EvaluateCost(o)
    IN  [o EXCEPT !.best_positions = Positions(o), !.current_cost = c,
                  !.best_cost = c,
                  !.current_temperature = o.config.initial_temperature,
                  !.iter = 0]

\* the body of `if (make_random_move())` with the best snapshot taken at
\* every accepted move
DecideMoveTrackCurrent(o) ==
    LET new_cost == EvaluateCost(o)
        delta_cost == new_cost.total_cost - o.current_cost.total_cost
        o1 == [o EXCEPT !.total_moves = @ + 1]
        p == AcceptProbability(o1, delta_cost)
        accepted == delta_cost < 0 \/ p.accept
        o2 == IF delta_cost < 0 THEN o1 ELSE [o1 EXCEPT !.rng = p.rng]
    IN  IF accepted
        THEN [o2 EXCEPT !.current_cost = new_cost, !.accepted_moves = @ + 1,
                        !.best_cost = new_cost,
                        !.best_positions = Positions(o2),
                        !.improved_moves = @ + 1]
        ELSE RejectMove(o2)

\* optimize, lines 48-69: the body of `if (make_random_move())`
DecideMove(o) ==
    LET new_cost == EvaluateCost(o)
        delta_cost == new_cost.total_cost - o.current_cost.total_cost
        o1 == [o EXCEPT !.total_moves = @ + 1]
        p == AcceptProbability(o1, delta_cost)
        accepted == delta_cost < 0 \/ p.accept
        o2 == IF delta_cost < 0 THEN o1 ELSE [o1 EXCEPT !.rng = p.rng]
    IN  IF accepted
        THEN LET o3 == [o2 EXCEPT !.current_cost = new_cost, !.accepted_moves = @ + 1]
             IN  IF new_cost.total_cost < o3.best_cost.total_cost
                 THEN [o3 EXCEPT !.best_cost = new_cost,
                                 !.best_positions = Positions(o3),
                                 !.improved_moves = @ + 1]
                 ELSE o3
        ELSE RejectMove(o2)

\* optimize, line 73: current_temperature *= cooling_rate, rounded down to
\* the grid
CoolDown(o) ==
    [o EXCEPT !.current_temperature = (@ * o.config.cooling_rate) \div 100]

\* a loop that is left on the iteration count alone
LoopContinuesCountOnly(o) == o.iter + 1 < o.config.max_iterations

\* optimize, lines 86-90 and the loop header: whether another iteration runs
\* after the one that just cooled down
LoopContinues(o) ==
    /\ ~(o.current_temperature < o.config.final_temperature)
    /\ o.iter + 1 < o.config.max_iterations

\* leaving optimize with the components where the last iteration left them
RestoreBestSkipped(o) == o

\* optimize, lines 93-95: restore the best solution
RestoreBest(o) ==
    [o EXCEPT !.components =
        [i \in 1..Len(o.components) |->
            [o.components[i] EXCEPT !.position = o.best_positions[i]]]]

\* SimulatedAnnealingOptimizer::get_statistics; the rates are in hundredths
GetStatistics(o) ==
    [total_moves |-> o.total_moves,
     accepted_moves |-> o.accepted_moves,
     improved_moves |-> o.improved_moves,
     acceptance_rate |-> IF o.total_moves > 0
                         THEN (100 * o.accepted_moves) \div o.total_moves ELSE 0,
     improvement_rate |-> IF o.total_moves > 0
                          THEN (100 * o.improved_moves) \div o.total_moves ELSE 0,
     final_cost |-> o.best_cost]

\* largest number of optimize() calls made on one optimizer
MaxOptimizeCalls == 2

\* what the history keeps of a call of optimize: its number and the counters
\* the optimizer had when it was made
StatsAtCall(o, n) ==
    [calls |-> n, total_moves |-> o.total_moves, accepted_moves |-> o.accepted_moves,
     improved_moves |-> o.improved_moves]

\* state before any optimizer is constructed
SAInit ==
    /\ sa = [k \in Runs |-> NewOptimizer(SAArea, CHOOSE c \in SAConfigs : TRUE, 0)]
    /\ sa_pc = [k \in Runs |-> "none"]
    /\ sa_input = [k \in Runs |-> [seed |-> 0, config |-> CHOOSE c \in SAConfigs : TRUE,
                                   program |-> [components |-> <<>>, nets |-> <<>>]]]
    /\ sa_trace = [k \in Runs |-> <<>>]
    /\ sa_result = [k \in Runs |-> ZeroCost]
    /\ sa_begin = [k \in Runs |-> [calls |-> 0, total_moves |-> 0, accepted_moves |-> 0,
                                   improved_moves |-> 0]]

\* the constructor: the program picks the configuration and the calls it is
\* going to make, std::random_device picks the seed; an optimizer is built
\* when the one before it has returned from optimize
Construct(k) ==
    /\ sa_pc[k] = "none"
    /\ \A j \in Runs : j < k => sa_pc[j] = "done"
    /\ \E seed \in 0..MaxSeed, config \in SAConfigs, program \in SAPrograms :
          /\ sa' = [sa EXCEPT ![k] = NewOptimizer(SAArea, config, seed)]
          /\ sa_input' = [sa_input EXCEPT
                             ![k] = [seed |-> seed, config |-> config, program |-> program]]
    /\ sa_pc' = [sa_pc EXCEPT ![k] = "new"]
    /\ UNCHANGED <<sa_trace, sa_result, sa_build, sa_begin, qtvars, rtvars, hivars, tpvars, libvars>>

\* add_component, the next one of the program
AddComponent(k) ==
    /\ sa_pc[k] = "new"
    /\ Len(sa[k].components) < Len(sa_input[k].program.components)
    /\ sa' = [sa EXCEPT ![k] =
                 AddComponentTo(@, sa_input[k].program.components[Len(@.components) + 1],
                                sa_build)]
    /\ UNCHANGED <<sa_pc, sa_input, sa_trace, sa_result, sa_build, sa_begin, qtvars, rtvars, hivars, tpvars, libvars>>

\* add_net, the next one of the program
AddNet(k) ==
    /\ sa_pc[k] = "new"
    /\ Len(sa[k].components) = Len(sa_input[k].program.components)
    /\ Len(sa[k].nets) < Len(sa_input[k].program.nets)
    /\ sa' = [sa EXCEPT ![k] = AddNetTo(@, sa_input[k].program.nets[Len(@.nets) + 1])]
    /\ UNCHANGED <<sa_pc, sa_input, sa_trace, sa_result, sa_build, sa_begin, qtvars, rtvars, hivars, tpvars, libvars>>

\* optimize up to the loop header
OptimizeBegin(k) ==
    /\ sa_pc[k] = "new"
    /\ Len(sa[k].components) = Len(sa_input[k].program.components)
    /\ Len(sa[k].nets) = Len(sa_input[k].program.nets)
    /\ sa' = [sa EXCEPT ![k] = OptimizeEnter(@)]
    /\ sa_pc' = [sa_pc EXCEPT
                    ![k] = IF 0 < sa[k].config.max_iterations THEN "loop" ELSE "restore"]
    /\ sa_trace' = [sa_trace EXCEPT ![k] = Append(@, Positions(sa'[k]))]
    /\ sa_begin' = [sa_begin EXCEPT ![k] = StatsAtCall(sa[k], 1)]
    /\ UNCHANGED <<sa_input, sa_result, sa_build, qtvars, rtvars, hivars, tpvars, libvars>>

\* optimize called again on an optimizer whose optimize has returned
Reoptimize(k) ==
    /\ sa_pc[k] = "done"
    /\ sa_begin[k].calls < MaxOptimizeCalls
    /\ sa' = [sa EXCEPT ![k] = OptimizeEnter(@)]
    /\ sa_pc' = [sa_pc EXCEPT
                    ![k] = IF 0 < sa[k].config.max_iterations THEN "loop" ELSE "restore"]
    /\ sa_trace' = [sa_trace EXCEPT ![k] = Append(@, Positions(sa'[k]))]
    /\ sa_begin' = [sa_begin EXCEPT ![k] = StatsAtCall(sa[k], @.calls + 1)]
    /\ UNCHANGED <<sa_input, sa_result, sa_build, qtvars, rtvars, hivars, tpvars, libvars>>

\* a make_random_move whose component is any movable one, not the one the
\* generator selects
MakeRandomMoveUnseeded(k) ==
    /\ sa_pc[k] = "loop"
    /\ LET o == sa[k]
           movable_components == MovableComponents(o)
       IN  \E r \in IF o.components = <<>> \/ movable_components = <<>>
                    THEN {[moved |-> FALSE, o |-> o]}
                    ELSE {ProposeMove(o, movable_components[i], sa_build) :
                             i \in 1..Len(movable_components)} :
                /\ sa' = [sa EXCEPT ![k] = r.o]
                /\ sa_pc' = [sa_pc EXCEPT ![k] = IF r.moved THEN "moved" ELSE "failed"]
    /\ sa_trace' = [sa_trace EXCEPT ![k] = Append(@, Positions(sa'[k]))]
    /\ UNCHANGED <<sa_input, sa_result, sa_build, sa_begin, qtvars, rtvars, hivars, tpvars, libvars>>

\* SimulatedAnnealingOptimizer::make_random_move, called by the loop
MakeRandomMove(k) ==
    /\ sa_pc[k] = "loop"
    /\ LET o == sa[k]
           movable_components == MovableComponents(o)
           comp_dist == UniformInt(o.rng, 0, Len(movable_components) - 1)
           r == IF o.components = <<>> \/ movable_components = <<>>
                THEN [moved |-> FALSE, o |-> o]
                ELSE ProposeMove([o EXCEPT !.rng = comp_dist.rng],
                                 movable_components[comp_dist.value + 1], sa_build)
       IN  /\ sa' = [sa EXCEPT ![k] = r.o]
           /\ sa_pc' = [sa_pc EXCEPT ![k] = IF r.moved THEN "moved" ELSE "failed"]
    /\ sa_trace' = [sa_trace EXCEPT ![k] = Append(@, Positions(sa'[k]))]
    /\ UNCHANGED <<sa_input, sa_result, sa_build, sa_begin, qtvars, rtvars, hivars, tpvars, libvars>>

\* the rest of one loop iteration: accept or reject the move that was made,
\* cool down, test for termination, advance iter
FinishIteration(k) ==
    /\ sa_pc[k] \in {"moved", "failed"}
    /\ LET o1 == IF sa_pc[k] = "moved" THEN DecideMove(sa[k]) ELSE sa[k]
           o2 == CoolDown(o1)
       IN  /\ sa' = [sa EXCEPT ![k] = [o2 EXCEPT !.iter = @ + 1]]
           /\ sa_pc' = [sa_pc EXCEPT ![k] = IF LoopContinues(o2) THEN "loop" ELSE "restore"]
    /\ sa_trace' = [sa_trace EXCEPT ![k] = Append(@, Positions(sa'[k]))]
    /\ UNCHANGED <<sa_input, sa_result, sa_build, sa_begin, qtvars, rtvars, hivars, tpvars, libvars>>

\* optimize from the end of the loop: restore the best solution, return
\* best_cost
OptimizeEnd(k) ==
    /\ sa_pc[k] = "restore"
    /\ sa' = [sa EXCEPT ![k] = RestoreBest(@)]
    /\ sa_pc' = [sa_pc EXCEPT ![k] = "done"]
    /\ sa_result' = [sa_result EXCEPT ![k] = sa[k].best_cost]
    /\ sa_trace' = [sa_trace EXCEPT ![k] = Append(@, Positions(sa'[k]))]
    /\ UNCHANGED <<sa_input, sa_build, sa_begin, qtvars, rtvars, hivars, tpvars, libvars>>

SANext ==
    \E k \in Runs :
        \/ Construct(k)
        \/ AddComponent(k)
        \/ AddNet(k)
        \/ OptimizeBegin(k)
        \/ MakeRandomMove(k)
        \/ FinishIteration(k)
        \/ OptimizeEnd(k)

-----------------------------------------------------------------------------
(* ThreadPool (advanced_spatial.cpp)                                       *)

\* number of worker threads the pool is constructed with
NumWorkers == 1

\* number of enqueue calls the producer makes
MaxTasks == 2

Workers == 1..NumWorkers

\* the thread that calls wait_for_completion, among the threads that can block
\* on ThreadPool::condition
WaiterThread == 0

\* what enqueue does under the lock: it throws when stop is set, otherwise it
\* queues the task and hands out the future
EnqueueOutcomeUnchecked(stop) == "future"

EnqueueOutcome(stop) == IF stop THEN "ThreadPoolStopped" ELSE "future"

\* the threads blocked in condition.wait
Waiting ==
    {w \in Workers : tp_worker[w].pc = "wait"}
        \cup (IF tp_waiter.pc = "wait" THEN {WaiterThread} ELSE {})

\* the workers after the threads of S were woken: a woken thread takes the
\* lock again and evaluates its predicate
WokenWorkers(S) ==
    [w \in Workers |-> IF w \in S /\ tp_worker[w].pc = "wait"
                       THEN [tp_worker[w] EXCEPT !.pc = "lock"]
                       ELSE tp_worker[w]]

WokenWaiter(S) ==
    IF WaiterThread \in S /\ tp_waiter.pc = "wait"
    THEN [tp_waiter EXCEPT !.pc = "lock"]
    ELSE tp_waiter

\* the tasks enqueue accepted so far
Accepted == {i \in 1..Len(tp_enq) : tp_enq[i] = "future"}

\* the constructor: stop is false, every worker is started and is about to
\* take the lock
TPInit ==
    /\ tp_tasks = <<>>
    /\ tp_stop = FALSE
    /\ tp_worker = [w \in Workers |-> [pc |-> "lock", task |-> 0]]
    /\ tp_producer = "idle"
    /\ tp_waiter = [pc |-> "idle", before |-> {}]
    /\ tp_dtor = "none"
    /\ tp_enq = <<>>
    /\ tp_done = {}

\* the worker holds the lock and evaluates the predicate of condition.wait:
\* it blocks, returns, or pops the front task
WorkerTake(w) ==
    /\ tp_worker[w].pc = "lock"
    /\ IF ~(tp_stop \/ tp_tasks # <<>>)
       THEN /\ tp_worker' = [tp_worker EXCEPT ![w].pc = "wait"]
            /\ UNCHANGED tp_tasks
       ELSE IF tp_stop /\ tp_tasks = <<>>
       THEN /\ tp_worker' = [tp_worker EXCEPT ![w].pc = "exit"]
            /\ UNCHANGED tp_tasks
       ELSE /\ tp_worker' = [tp_worker EXCEPT ![w] = [pc |-> "run", task |-> Head(tp_tasks)]]
            /\ tp_tasks' = Tail(tp_tasks)
    /\ UNCHANGED <<tp_stop, tp_producer, tp_waiter, tp_dtor, tp_enq, tp_done,
                   qtvars, rtvars, hivars, savars, libvars>>

\* task() returns: the future of the task is ready, the worker loops
WorkerRun(w) ==
    /\ tp_worker[w].pc = "run"
    /\ tp_done' = tp_done \cup {tp_worker[w].task}
    /\ tp_worker' = [tp_worker EXCEPT ![w] = [pc |-> "lock", task |-> 0]]
    /\ UNCHANGED <<tp_tasks, tp_stop, tp_producer, tp_waiter, tp_dtor, tp_enq,
                   qtvars, rtvars, hivars, savars, libvars>>

\* enqueue, under the lock
Enqueue ==
    /\ tp_producer = "idle"
    /\ tp_dtor # "done"
    /\ Len(tp_enq) < MaxTasks
    /\ LET outcome == EnqueueOutcome(tp_stop)
       IN /\ tp_enq' = Append(tp_enq, outcome)
          /\ IF outcome = "ThreadPoolStopped"
             THEN UNCHANGED <<tp_tasks, tp_producer>>
             ELSE /\ tp_tasks' = Append(tp_tasks, Len(tp_enq) + 1)
                  /\ tp_producer' = "notify"
    /\ UNCHANGED <<tp_stop, tp_worker, tp_waiter, tp_dtor, tp_done,
                   qtvars, rtvars, hivars, savars, libvars>>

\* enqueue, after the lock is released: condition.notify_one() wakes one of
\* the threads blocked on the condition, whichever the implementation picks
EnqueueNotify ==
    /\ tp_producer = "notify"
    /\ tp_producer' = "idle"
    /\ IF Waiting = {}
       THEN UNCHANGED <<tp_worker, tp_waiter>>
       ELSE \E t \in Waiting :
               /\ tp_worker' = WokenWorkers({t})
               /\ tp_waiter' = WokenWaiter({t})
    /\ UNCHANGED <<tp_tasks, tp_stop, tp_dtor, tp_enq, tp_done,
                   qtvars, rtvars, hivars, savars, libvars>>

\* wait_for_completion is called: the caller is about to take the lock
WaitForCompletion ==
    /\ tp_waiter.pc = "idle"
    /\ tp_dtor = "none"
    /\ tp_waiter' = [pc |-> "lock", before |-> Accepted]
    /\ UNCHANGED <<tp_tasks, tp_stop, tp_worker, tp_producer, tp_dtor, tp_enq, tp_done,
                   qtvars, rtvars, hivars, savars, libvars>>

\* the caller holds the lock and evaluates the predicate of condition.wait
WaitCheck ==
    /\ tp_waiter.pc = "lock"
    /\ tp_waiter' = [tp_waiter EXCEPT !.pc = IF tp_tasks = <<>> THEN "returned" ELSE "wait"]
    /\ UNCHANGED <<tp_tasks, tp_stop, tp_worker, tp_producer, tp_dtor, tp_enq, tp_done,
                   qtvars, rtvars, hivars, savars, libvars>>

\* condition.wait may wake without a notification
SpuriousWakeup ==
    /\ \E t \in Waiting :
          /\ tp_worker' = WokenWorkers({t})
          /\ tp_waiter' = WokenWaiter({t})
    /\ UNCHANGED <<tp_tasks, tp_stop, tp_producer, tp_dtor, tp_enq, tp_done,
                   qtvars, rtvars, hivars, savars, libvars>>

\* the destructor, under the lock
DestroyStop ==
    /\ tp_dtor = "none"
    /\ tp_producer = "idle"
    /\ tp_stop' = TRUE
    /\ tp_dtor' = "stopped"
    /\ UNCHANGED <<tp_tasks, tp_worker, tp_producer, tp_waiter, tp_enq, tp_done,
                   qtvars, rtvars, hivars, savars, libvars>>

\* the destructor: condition.notify_all()
DestroyNotify ==
    /\ tp_dtor = "stopped"
    /\ tp_worker' = WokenWorkers(Waiting)
    /\ tp_waiter' = WokenWaiter(Waiting)
    /\ tp_dtor' = "joining"
    /\ UNCHANGED <<tp_tasks, tp_stop, tp_producer, tp_enq, tp_done,
                   qtvars, rtvars, hivars, savars, libvars>>

\* the destructor: every worker.join() has returned
DestroyJoin ==
    /\ tp_dtor = "joining"
    /\ tp_producer = "idle"
    /\ \A w \in Workers : tp_worker[w].pc = "exit"
    /\ tp_dtor' = "done"
    /\ UNCHANGED <<tp_tasks, tp_stop, tp_worker, tp_producer, tp_waiter, tp_enq, tp_done,
                   qtvars, rtvars, hivars, savars, libvars>>

TPNext ==
    \/ \E w \in Workers : WorkerTake(w)
    \/ \E w \in Workers : WorkerRun(w)
    \/ Enqueue
    \/ EnqueueNotify
    \/ WaitForCompletion
    \/ WaitCheck
    \/ SpuriousWakeup
    \/ DestroyStop
    \/ DestroyNotify
    \/ DestroyJoin

-----------------------------------------------------------------------------
(* geometry::Polygon (polygon.cpp) and Point::distance_to_line (point.cpp)  *)

\* the polygons that are queried, by their vertex lists: a square, a
\* triangle, a concave L, the square in clockwise order, a thin triangle
\* with slanted edges
Polygons ==
    {<<Point(1, 1), Point(3, 1), Point(3, 3), Point(1, 3)>>,
     <<Point(0, 0), Point(4, 0), Point(0, 4)>>,
     <<Point(0, 0), Point(4, 0), Point(4, 2), Point(2, 2), Point(2, 4), Point(0, 4)>>,
     <<Point(1, 3), Point(3, 3), Point(3, 1), Point(1, 1)>>,
     <<Point(0, 0), Point(4, 1), Point(0, 2)>>}

\* the points that are queried: the grid points around and inside the polygons
PolygonPoints == [x : 0..4, y : 0..4]

\* the test of one edge in the ray casting loop of Polygon::contains_point,
\* from vertex vj to vertex vi. The quotient of the source is compared after
\* multiplying by yj - yi, whose sign turns the comparison
RayCrosses(vi, vj, point) ==
    /\ (vi.y > point.y) # (vj.y > point.y)
    /\ LET d == vj.y - vi.y
           lhs == (point.x - vi.x) * d
           rhs == (vj.x - vi.x) * (point.y - vi.y)
       IN  IF d > 0 THEN lhs < rhs ELSE lhs > rhs

\* Polygon::contains_point: inside flips at every edge the ray crosses
PolygonContainsPoint(vertices, point) ==
    LET n == Len(vertices)
        crossings == {i \in 1..n :
                         RayCrosses(vertices[i], vertices[IF i = 1 THEN n ELSE i - 1], point)}
    IN  n >= 3 /\ Cardinality(crossings) % 2 = 1

\* Point::distance_to_line, in hundredths: the distance to the closest point
\* of the segment, the projection parameter t clamped to [0, 1]
DistanceToLine(point, line_start, line_end) ==
    LET vx == line_end.x - line_start.x
        vy == line_end.y - line_start.y
        line_length_sq == vx * vx + vy * vy
        px == point.x - line_start.x
        py == point.y - line_start.y
        dot == px * vx + py * vy
    IN  IF line_length_sq < 1 THEN PointDistance(point, line_start)
        ELSE IF dot <= 0 THEN PointDistance(point, line_start)
        ELSE IF dot >= line_length_sq THEN PointDistance(point, line_end)
        ELSE LET ex == px * line_length_sq - vx * dot
                 ey == py * line_length_sq - vy * dot
             IN  ISqrtIn((10000 * (ex * ex + ey * ey)) \div (line_length_sq * line_length_sq),
                         0, 1023)

\* Polygon::edges
Edges(vertices) ==
    [i \in 1..Len(vertices) |-> <<vertices[i], vertices[(i % Len(vertices)) + 1]>>]

\* Polygon::distance_to(const Point&), in hundredths: the minimum over the edges
PolygonDistanceTo(vertices, point) ==
    LET e == Edges(vertices)
    IN  MinOf([i \in 1..Len(e) |-> DistanceToLine(point, e[i][1], e[i][2])])

PGInit ==
    pg = [polygon |-> <<>>, point |-> Point(0, 0), contains |-> FALSE, distance |-> 0]

\* contains_point and distance_to are called on polygon P with point p
PolygonQuery(P, p) ==
    /\ pg' = [polygon |-> P, point |-> p,
              contains |-> PolygonContainsPoint(P, p),
              distance |-> PolygonDistanceTo(P, p)]
    /\ UNCHANGED <<zo, lib, qtvars, rtvars, hivars, savars, tpvars>>

PGNext == \E P \in Polygons, p \in PolygonPoints : PolygonQuery(P, p)

-----------------------------------------------------------------------------
(* ZOrderCurve::decode (advanced_spatial.hpp)                              *)

\* one line of the mask cascade of deinterleave, bits top..0 of it: bit i of
\* (x | (x >> shift)) & mask, the mask having the bits i with (i \div group)
\* even; no value has a bit above ZTopBit
RECURSIVE CompactBits(_, _, _, _)
CompactBits(x, shift, group, top) ==
    IF top < 0 THEN 0
    ELSE (IF (top \div group) % 2 = 0 /\
             (BitAt(x, top) = 1 \/ (top + shift <= ZTopBit /\ BitAt(x, top + shift) = 1))
          THEN Pow2(top) ELSE 0)
         + CompactBits(x, shift, group, top - 1)

\* one line of the mask cascade: (x | (x >> shift)) & mask
CompactStep(x, shift, group) == CompactBits(x, shift, group, ZTopBit)

\* the cascade without its first line, x & 0x5555555555555555
DeinterleaveUnmasked(x) ==
    CompactStep(CompactStep(CompactStep(CompactStep(CompactStep(x, 1, 2), 2, 4), 4, 8), 8, 16), 16, 32)

\* ZOrderCurve::deinterleave
Deinterleave(x) ==
    CompactStep(CompactStep(CompactStep(CompactStep(CompactStep(
        CompactStep(x, 0, 1), 1, 2), 2, 4), 4, 8), 8, 16), 16, 32)

\* ZOrderCurve::decode
Decode(z) == <<Deinterleave(z), Deinterleave(z \div 2)>>

\* the grid coordinates that are encoded: small values, alternating bit
\* patterns, the top bit alone, the largest values
ZCoords ==
    {0, 1, 2, 3, 6, 85, 100, 170, Pow2(ZBits - 1), Pow2(ZBits) - 2, Pow2(ZBits) - 1}

\* the key ZOrderCurve::encode gives every pair of grid coordinates
ZKeyTable == [p \in ZCoords \X ZCoords |-> Encode(p[1], p[2])]

ZOInit == zo = [called |-> FALSE, x |-> 0, y |-> 0, key |-> 0, decoded |-> <<0, 0>>]

\* decode(encode(x, y)), for one pair of coordinates
ZRoundTrip(x, y) ==
    /\ ~zo.called
    /\ zo' = [called |-> TRUE, x |-> x, y |-> y, key |-> Encode(x, y),
              decoded |-> Decode(Encode(x, y))]
    /\ UNCHANGED <<pg, lib, qtvars, rtvars, hivars, savars, tpvars>>

ZONext == \E x, y \in ZCoords : ZRoundTrip(x, y)

-----------------------------------------------------------------------------
(* zlayout::initialize and zlayout::cleanup (zlayout.cpp)                  *)

\* number of calls the program makes on the library
MaxLibCalls == 4

\* the globals before any call, in a build with or without ZLAYOUT_OPENMP
NewLib(build_openmp) ==
    [initialized |-> FALSE, openmp_enabled |-> FALSE, build_openmp |-> build_openmp,
     trace |-> <<>>, result |-> FALSE]

\* initialize without the test of g_initialized
InitializeAgain(l, enable_openmp) ==
    [l EXCEPT !.openmp_enabled = enable_openmp /\ l.build_openmp,
              !.initialized = TRUE,
              !.result = TRUE]

\* zlayout::initialize: the globals and the returned bool after the call
InitializeLib(l, enable_openmp) ==
    IF l.initialized
    THEN [l EXCEPT !.result = TRUE]
    ELSE [l EXCEPT !.openmp_enabled = enable_openmp /\ l.build_openmp,
                   !.initialized = TRUE,
                   !.result = TRUE]

\* zlayout::cleanup
CleanupLib(l) ==
    IF ~l.initialized THEN l
    ELSE [l EXCEPT !.initialized = FALSE, !.openmp_enabled = FALSE]

LibInit == lib = NewLib(FALSE)

\* a call of initialize(enable_openmp)
Initialize(enable_openmp) ==
    /\ Len(lib.trace) < MaxLibCalls
    /\ lib' = [InitializeLib(lib, enable_openmp) EXCEPT
                  !.trace = Append(@, [op |-> "initialize", enable_openmp |-> enable_openmp])]
    /\ UNCHANGED <<pg, zo, qtvars, rtvars, hivars, savars, tpvars>>

\* a call of cleanup()
Cleanup ==
    /\ Len(lib.trace) < MaxLibCalls
    /\ lib' = [CleanupLib(lib) EXCEPT
                  !.trace = Append(@, [op |-> "cleanup", enable_openmp |-> FALSE])]
    /\ UNCHANGED <<pg, zo, qtvars, rtvars, hivars, savars, tpvars>>

LibNext ==
    \/ \E enable_openmp \in BOOLEAN : Initialize(enable_openmp)
    \/ Cleanup

-----------------------------------------------------------------------------
(* Specifications                                                          *)

InitQuadTree == QTInit /\ RTInit /\ HIInit /\ SAInit /\ TPInit /\ PGInit /\ ZOInit /\ LibInit /\ sa_build = "xy"

SpecQuadTree == InitQuadTree /\ [][QTNext]_vars

SpecQuadTreeOps == InitQuadTree /\ [][QTOpsNext]_vars

Init == QTDefault /\ RTInit /\ HIInit /\ SAInit /\ TPInit /\ PGInit /\ ZOInit /\ LibInit /\ sa_build = "xy"

SpecRTree == Init /\ [][RTNext]_vars

SpecHier == Init /\ [][HINext]_vars

InitSA == QTDefault /\ RTInit /\ HIInit /\ SAInit /\ TPInit /\ PGInit /\ ZOInit /\ LibInit /\ sa_build \in {"xy", "yx"}

SpecSA == InitSA /\ [][SANext]_vars

\* a call of optimize that is running keeps running: the steps of the loop and
\* the return are taken when they are enabled
OptimizeSteps == MakeRandomMove(1) \/ FinishIteration(1) \/ OptimizeEnd(1)

\* one optimizer, on which optimize may be called again
SAOneNext ==
    \/ Construct(1)
    \/ AddComponent(1)
    \/ AddNet(1)
    \/ OptimizeBegin(1)
    \/ MakeRandomMove(1)
    \/ FinishIteration(1)
    \/ OptimizeEnd(1)
    \/ Reoptimize(1)

FairSpecSA == InitSA /\ [][SAOneNext]_vars /\ WF_vars(OptimizeSteps)

SpecThreadPool == Init /\ [][TPNext]_vars

SpecPolygon == Init /\ [][PGNext]_vars

SpecZOrder == Init /\ [][ZONext]_vars

\* the library is built with or without ZLAYOUT_OPENMP
InitLibrary ==
    /\ QTDefault /\ RTInit /\ HIInit /\ SAInit /\ TPInit /\ PGInit /\ ZOInit
    /\ sa_build = "xy"
    /\ \E build_openmp \in BOOLEAN : lib = NewLib(build_openmp)

SpecLibrary == InitLibrary /\ [][LibNext]_vars

\* a thread that can run is scheduled: a worker, the caller of
\* wait_for_completion and the producer go on when they hold or can take the
\* lock, the destructor goes on once it has started. Nothing makes the
\* program call enqueue, wait_for_completion or the destructor, and nothing
\* makes condition.wait wake spuriously
FairSpecThreadPool ==
    /\ Init
    /\ [][TPNext]_vars
    /\ \A w \in Workers : WF_vars(WorkerTake(w)) /\ WF_vars(WorkerRun(w))
    /\ WF_vars(EnqueueNotify)
    /\ WF_vars(WaitCheck)
    /\ WF_vars(DestroyNotify)
    /\ WF_vars(DestroyJoin)

-----------------------------------------------------------------------------
(* Claims on the QuadTree                                                  *)

\* the objects of S whose bounding box intersects R
Expected(S, R) == SelectSeq(S, LAMBDA o : Intersects(BBox(o), R))

\* C1: for every insertion sequence and every query rectangle R,
\* query_range(R) returns exactly the inserted objects whose bounding box
\* intersects R, none missing and none extra.
QuadtreeCompleteness ==
    \A R \in QTRanges : SameBag(TreeQueryRange(qt, R), Expected(qt_S, R))

\* the bounding box of obj reaches into all four quadrants of the root
CoversAllQuadrants(obj) ==
    \A i \in 1..4 :
        Intersects(Subdivide(NewNode(QTWorld, 0)).children[i].boundary, BBox(obj))

\* C2: an inserted object whose bounding box covers all four root quadrants
\* is returned by every query_range(R) whose R intersects the root.
QuadtreeStraddling ==
    \A obj \in Range(qt_S) :
        CoversAllQuadrants(obj) =>
            \A R \in QTRanges :
                Intersects(QTWorld, R) => obj \in Range(TreeQueryRange(qt, R))

\* number of times the unordered pair of a and b occurs in pairs
PairCount(pairs, a, b) ==
    Cardinality({i \in 1..Len(pairs) : pairs[i] = <<a, b>> \/ pairs[i] = <<b, a>>})

\* number of unordered pairs of stored objects that are an a and a b
StoredPairs(S, a, b) ==
    Cardinality({ij \in (1..Len(S)) \X (1..Len(S)) :
                    ij[1] < ij[2] /\ {S[ij[1]], S[ij[2]]} = {a, b}})

\* C21: find_potential_intersections returns every unordered pair of stored
\* objects whose bounding boxes intersect, and no pair more than once.
AllIntersectingPairsOnce ==
    \A file \in QTSourceFiles :
        LET pairs == FindPotentialIntersections(qt, file)
        IN  \A a, b \in QTObjects :
                /\ (StoredPairs(qt_S, a, b) > 0 /\ Intersects(BBox(a), BBox(b)))
                       => PairCount(pairs, a, b) >= 1
                /\ PairCount(pairs, a, b) <= StoredPairs(qt_S, a, b)

\* the nodes of the tree below and including node
RECURSIVE QuadTreeNodes(_)
QuadTreeNodes(node) ==
    {node} \cup
    (IF node.divided
     THEN UNION {QuadTreeNodes(node.children[i]) : i \in 1..4}
     ELSE {})

\* the child quadrants of node that the bounding box of obj intersects
QuadrantsOf(node, obj) ==
    {i \in 1..4 : Intersects(node.children[i].boundary, BBox(obj))}

\* C25: an object that a subdivided node received and whose bounding box
\* intersects more than one of its child quadrants is stored in the node's
\* own list and in none of its children. The children hold only objects
\* received after the subdivision, so no object below a subdivided node
\* intersects more than one of its quadrants.
StraddlersStayInNode ==
    \A node \in QuadTreeNodes(qt.root) :
        node.divided =>
            \A i \in 1..4 :
                \A obj \in Range(NodeAllObjects(node.children[i])) :
                    Cardinality(QuadrantsOf(node, obj)) <= 1

\* C19: update(old, new) with old in the tree terminates and leaves the tree
\* as remove(old) followed by insert(new) leaves it.
UpdateIsRemoveThenInsert ==
    [][\A old_object, new_object \in QTObjects :
          (QTUpdate(old_object, new_object) /\ TreeRemove(qt, old_object).ok)
              => /\ qt_update'.status = "returned"
                 /\ qt' = TreeInsert(TreeRemove(qt, old_object).tree, new_object).tree]_vars

\* C20: query_point(p) returns the same objects as query_range on the
\* zero-area rectangle at p.
QueryPointIsZeroRange ==
    \A p \in QTPoints :
        SameBag(TreeQueryPoint(qt, p), TreeQueryRange(qt, PointRange(p)))

\* C26: remove(obj) returns true and erases exactly one stored occurrence of
\* obj when obj is in the tree, in whichever node it is stored, and every
\* other object stays retrievable by query_range (every range returns the
\* other objects it returned before); it returns false and changes nothing
\* when obj is not in the tree.
RemoveErasesOne ==
    [][\A obj \in QTObjects :
          QTRemove(obj) =>
              LET before == NodeAllObjects(qt.root)
                  after == NodeAllObjects(qt'.root)
              IN  IF Count(before, obj) > 0
                  THEN /\ TreeRemove(qt, obj).ok
                       /\ Count(after, obj) = Count(before, obj) - 1
                       /\ \A o \in QTObjects \ {obj} : Count(after, o) = Count(before, o)
                       /\ \A R \in QTRanges :
                              SelectSeq(TreeQueryRange(qt', R), LAMBDA o : o # obj)
                                  = SelectSeq(TreeQueryRange(qt, R), LAMBDA o : o # obj)
                  ELSE ~TreeRemove(qt, obj).ok /\ qt' = qt]_vars

\* a remove erased an object stored below the root, another remove failed,
\* and objects are left in the tree
RemovedBelowRoot == qt_ops.below /\ qt_ops.failed /\ qt_S # <<>>

\* C29: no node has depth greater than max_depth, and a node that is not
\* subdivided and lies above max_depth holds at most capacity objects.
NodeBounds ==
    \A node \in QuadTreeNodes(qt.root) :
        /\ node.depth <= qt.max_depth
        /\ (~node.divided /\ node.depth < qt.max_depth)
               => Len(node.objects) <= qt.capacity

\* a node at max_depth, below the root, holds more than capacity objects
OverfullAtMaxDepth ==
    \E node \in QuadTreeNodes(qt.root) :
        /\ node.depth = qt.max_depth /\ node.depth > 0
        /\ Len(node.objects) > qt.capacity

\* C30: size() equals the number of objects stored in the nodes of the tree.
SizeCountsStoredObjects == qt.object_count = NodeSize(qt.root)

\* objects are stored below the root after an insert was refused, a remove
\* failed and another removed an object
SizeAfterRefusals ==
    /\ qt_ops.rejected /\ qt_ops.failed /\ qt_ops.removed
    /\ qt.root.divided /\ NodeSize(qt.root) > Len(qt.root.objects)

-----------------------------------------------------------------------------
(* Claims on the RTree                                                     *)

\* C6: RTree::query_range(R) returns exactly the inserted objects whose bbox
\* intersects R, degenerate bounding boxes included.
RTreeQueryExact ==
    \A R \in RTRanges :
        SameBag(RTreeQueryRange(rt, R),
                LET hits == SelectSeq(rt_S, LAMBDA e : Intersects(e.bbox, R))
                IN  [i \in 1..Len(hits) |-> hits[i].object])

\* C7: no node of the R-tree, the root included, holds more than
\* MAX_ENTRIES entries.
RTreeNodeBound ==
    \A n \in RTreeNodes(rt.root) :
        Len(n.entries) <= MAX_ENTRIES /\ Len(n.children) <= MAX_ENTRIES

-----------------------------------------------------------------------------
(* Claims on the HierarchicalSpatialIndex                                  *)

\* C3: when parallel_bulk_insert returns, a parallel_query_range over the
\* full world returns every input object, none lost and none duplicated.
ParallelInsertKeepsAll ==
    (hi_call.op = "parallel_bulk_insert" /\ hi_call.result = "returned") =>
        \A names \in IterationOrders(block_indices) :
            LET result == ParallelQueryRange(root_block, block_indices, names, QTWorld)
            IN  /\ \A o \in Range(hi_call.input) : Count(result, o) >= 1
                /\ \A o \in Range(result) : Count(result, o) = 1

\* C4: no two threads mutate the same leaf index, or the shared
\* block-to-index map, at the same time.
LeafMutationExclusive ==
    \A t, u \in Threads :
        t # u =>
            /\ ~(th[t].pc = "creating" /\ th[u].pc = "creating")
            /\ ~(th[t].pc = "locked" /\ th[u].pc = "locked" /\ th[t].tree = th[u].tree)
            /\ ~(th[t].pc = "creating" /\ th[u].pc = "locked" /\
                 th[t].block_name = th[u].block_name)

\* the names of the blocks of the hierarchy
BlockNamesIn(root) == {b.name : b \in Range(BlockList(root))}

\* the step is a call of create_ip_block
IsCreateIpBlockCall == hi_ncalls' = hi_ncalls + 1 /\ hi_call'.op = "create_ip_block"

\* C5: parallel_query_range(R) never returns the same object twice, also
\* when the object is stored in the leaf indexes of several blocks that
\* intersect R.
QueryHasNoDuplicates ==
    \A R \in QTRanges :
        \A names \in IterationOrders(block_indices) :
            LET res == ParallelQueryRange(root_block, block_indices, names, R)
            IN  \A i, j \in 1..Len(res) : i # j => res[i] # res[j]

\* an object is stored in the leaf indexes of two blocks and a query of the
\* world reaches both and returns it
StoredInTwoBlocks ==
    \E a, b \in DOMAIN block_indices :
        /\ a # b
        /\ \E o \in QTObjects :
              /\ o \in Range(TreeQueryRange(block_indices[a].tree, QTWorld))
              /\ o \in Range(TreeQueryRange(block_indices[b].tree, QTWorld))
              /\ \A names \in IterationOrders(block_indices) :
                    /\ Count(DispatchParallelQueries(root_block, block_indices,
                                                     names, QTWorld), o) >= 2
                    /\ o \in Range(ParallelQueryRange(root_block, block_indices,
                                                      names, QTWorld))

\* C8: create_ip_block with a name already present in the hierarchy fails
\* with DuplicateBlockName and changes nothing.
DuplicateNameRejected ==
    [][(IsCreateIpBlockCall /\ hi_call'.name \in BlockNamesIn(root_block)) =>
          /\ hi_call'.result = "DuplicateBlockName"
          /\ UNCHANGED <<root_block, block_indices, rtree_indices>>]_vars

\* C9: create_ip_block with a parent name that matches no existing block
\* fails with BlockNotFound and leaves the block tree and both
\* block-to-index maps as they were.
MissingParentRejected ==
    [][(IsCreateIpBlockCall /\ hi_call'.parent_name \notin BlockNamesIn(root_block)) =>
          /\ hi_call'.result = "BlockNotFound"
          /\ UNCHANGED <<root_block, block_indices, rtree_indices>>]_vars

\* a create_ip_block under a missing parent has failed on an index that
\* holds a block, its leaf index and an object
MissingParentSeen ==
    /\ hi_call.op = "create_ip_block"
    /\ hi_call.result = "BlockNotFound"
    /\ hi_call.parent_name \notin BlockNamesIn(root_block)
    /\ Len(root_block.sub_blocks) > 0
    /\ \E n \in DOMAIN block_indices : block_indices[n].tree.object_count > 0

-----------------------------------------------------------------------------
(* Claims on the SimulatedAnnealingOptimizer                               *)

\* s is an initial segment of t
IsPrefix(s, t) == Len(s) <= Len(t) /\ \A i \in 1..Len(s) : s[i] = t[i]

InOptimize(k) == sa_pc[k] \in {"loop", "moved", "failed", "restore"}

\* C11: within one optimize() run best_cost.total_cost never increases from
\* one step of the loop to the next.
BestCostNeverIncreases ==
    [][\A k \in Runs :
          InOptimize(k) => sa'[k].best_cost.total_cost <= sa[k].best_cost.total_cost]_vars

\* a run has improved its best cost and has then accepted a move whose cost
\* is above it
UphillAfterImprovement ==
    \E k \in Runs :
        /\ InOptimize(k)
        /\ sa[k].improved_moves > 0
        /\ sa[k].current_cost.total_cost > sa[k].best_cost.total_cost

\* C12: when optimize() returns, every component is at its position of the
\* best snapshot and the returned cost is the cost of exactly those positions.
ReturnsBestSnapshot ==
    \A k \in Runs :
        sa_pc[k] = "done" =>
            /\ Positions(sa[k]) = sa[k].best_positions
            /\ sa_result[k] = sa[k].best_cost
            /\ sa_result[k] = EvaluateCost(sa[k])

\* a run has returned whose last accepted move was not its best one
ReturnedAfterWorseMove ==
    \E k \in Runs :
        /\ sa_pc[k] = "done"
        /\ sa[k].improved_moves > 0
        /\ sa[k].current_cost.total_cost > sa[k].best_cost.total_cost

\* C13: optimize() always terminates: at most max_iterations iterations are
\* run, every iteration multiplies the temperature by cooling_rate whether its
\* move succeeded or failed, the loop is left after the first iteration that
\* brings the temperature below final_temperature, and a running call returns.
OptimizeTerminates ==
    /\ [](\A k \in Runs :
            /\ sa[k].iter <= sa[k].config.max_iterations
            /\ (sa_pc[k] \in {"loop", "moved", "failed"} /\ sa[k].iter > 0) =>
                   sa[k].current_temperature >= sa[k].config.final_temperature)
    /\ [][\A k \in Runs :
            (sa_pc[k] \in {"moved", "failed"} /\ sa_pc'[k] # sa_pc[k]) =>
                /\ sa'[k].iter = sa[k].iter + 1
                /\ sa'[k].current_temperature =
                       (sa[k].current_temperature * sa[k].config.cooling_rate) \div 100
                /\ sa'[k].current_temperature < sa[k].config.final_temperature =>
                       sa_pc'[k] = "restore"]_vars
    /\ \A k \in Runs : InOptimize(k) ~> (sa_pc[k] = "done")

\* a run has returned because of the temperature, before max_iterations, and
\* one of its iterations had a move that failed
CooledDownWithFailedMove ==
    \E k \in Runs :
        /\ sa_pc[k] = "done"
        /\ sa[k].iter < sa[k].config.max_iterations
        /\ sa[k].total_moves < sa[k].iter

\* C14: when a second or later optimize() on the same optimizer returns,
\* get_statistics() reports the moves of that call only, and the registered
\* components and nets are the ones the program registered.
RerunResetsStatistics ==
    \A k \in Runs :
        (sa_pc[k] = "done" /\ sa_begin[k].calls >= 2) =>
            /\ GetStatistics(sa[k]).total_moves = sa[k].total_moves - sa_begin[k].total_moves
            /\ GetStatistics(sa[k]).accepted_moves =
                   sa[k].accepted_moves - sa_begin[k].accepted_moves
            /\ GetStatistics(sa[k]).improved_moves =
                   sa[k].improved_moves - sa_begin[k].improved_moves
            /\ [i \in 1..Len(sa[k].components) |-> sa[k].components[i].name] =
                   [i \in 1..Len(sa_input[k].program.components) |->
                       sa_input[k].program.components[i].name]
            /\ sa[k].nets = sa_input[k].program.nets

\* the net names a component that was never registered, as its driver or as
\* one of its sinks
IsDangling(o, net) ==
    \/ ~Registered(o, net.driver_component)
    \/ \E s \in 1..Len(net.sinks) : ~Registered(o, net.sinks[s])

\* the optimizer without its dangling nets
WithoutDanglingNets(o) ==
    [o EXCEPT !.nets = SelectSeq(o.nets, LAMBDA net : ~IsDangling(o, net))]

\* C15: a net that names an unregistered component, as driver or as sink,
\* contributes nothing to the wirelength cost and nothing to the timing cost.
DanglingNetsSkipped ==
    \A k \in Runs :
        /\ CalculateWirelengthCost(sa[k]) = CalculateWirelengthCost(WithoutDanglingNets(sa[k]))
        /\ CalculateTimingCost(sa[k]) = CalculateTimingCost(WithoutDanglingNets(sa[k]))

\* the component positions before the loop iteration that is under way: the
\* entry of the history before the one make_random_move added
PositionsBeforeMove(k) == sa_trace[k][Len(sa_trace[k]) - 1]

\* C27 as stated: in the part of an iteration that follows a rejected or a
\* failed move, the positions and current_cost are those from before the
\* iteration and no member of the optimizer but the temperature changes (iter
\* is the loop's local counter).
OnlyTemperatureChanges ==
    [][\A k \in Runs :
          (FinishIteration(k) /\ sa'[k].accepted_moves = sa[k].accepted_moves) =>
              /\ Positions(sa'[k]) = PositionsBeforeMove(k)
              /\ sa'[k].current_cost = sa[k].current_cost
              /\ [sa'[k] EXCEPT !.current_temperature = sa[k].current_temperature,
                                !.iter = sa[k].iter,
                                !.components = sa[k].components] = sa[k]]_vars

\* C27, amended: a rejected move, and a proposed move that fails the
\* placement-area check, leave every component position, current_cost and
\* the best snapshot as they were before the iteration; a rejected move is
\* counted in total_moves, a failed one is not, and neither is counted as
\* accepted or improved.
RejectedMoveLeavesPlacement ==
    [][\A k \in Runs :
          /\ MakeRandomMove(k) =>
                 /\ sa'[k].current_cost = sa[k].current_cost
                 /\ sa_pc'[k] = "failed" => sa'[k].components = sa[k].components
          /\ (FinishIteration(k) /\ sa'[k].accepted_moves = sa[k].accepted_moves) =>
                 /\ Positions(sa'[k]) = PositionsBeforeMove(k)
                 /\ sa'[k].current_cost = sa[k].current_cost
                 /\ sa'[k].best_cost = sa[k].best_cost
                 /\ sa'[k].best_positions = sa[k].best_positions
                 /\ sa'[k].improved_moves = sa[k].improved_moves
                 /\ sa'[k].total_moves =
                        sa[k].total_moves + (IF sa_pc[k] = "moved" THEN 1 ELSE 0)]_vars

\* an iteration has just ended whose move was applied and then rolled back
MoveRolledBack ==
    \E k \in Runs :
        /\ sa_pc[k] \in {"loop", "restore"}
        /\ Len(sa_trace[k]) >= 3
        /\ sa_trace[k][Len(sa_trace[k])] = sa_trace[k][Len(sa_trace[k]) - 2]
        /\ sa_trace[k][Len(sa_trace[k]) - 1] # sa_trace[k][Len(sa_trace[k])]

-----------------------------------------------------------------------------
(* Claims on the ThreadPool                                                *)

\* C16: every task that enqueue accepted is eventually run to completion.
EnqueuedTaskEventuallyRuns ==
    \A i \in 1..MaxTasks : (i \in Accepted) ~> (i \in tp_done)

\* C17: when wait_for_completion has returned, every task that was enqueued
\* before the call has finished executing.
WaitForCompletionIsBarrier ==
    tp_waiter.pc = "returned" => tp_waiter.before \subseteq tp_done

\* a task whose enqueue call threw
Rejected == {i \in 1..Len(tp_enq) : tp_enq[i] = "ThreadPoolStopped"}

\* C18: an enqueue call on a stopped pool fails with ThreadPoolStopped and
\* leaves the queue as it was; the task is never queued, run or completed.
EnqueueAfterStopFails ==
    /\ [][(Len(tp_enq') = Len(tp_enq) + 1 /\ tp_stop)
            => /\ tp_enq'[Len(tp_enq')] = "ThreadPoolStopped"
               /\ tp_tasks' = tp_tasks]_vars
    /\ [](\A i \in Rejected :
            /\ \A j \in 1..Len(tp_tasks) : tp_tasks[j] # i
            /\ \A w \in Workers : tp_worker[w].task # i
            /\ i \notin tp_done)

\* the pool was shut down, with an enqueue call made during the shutdown
RejectedDuringShutdown == tp_dtor = "done" /\ Rejected # {}

\* C28: a thread blocked in wait_for_completion of a live pool while the
\* task queue is empty eventually returns, unless a further task is enqueued
\* (or the pool is destroyed under it).
BlockedWaiterEventuallyReturns ==
    (tp_waiter.pc = "wait" /\ tp_tasks = <<>> /\ tp_dtor = "none")
        ~> (tp_waiter.pc = "returned" \/ tp_tasks # <<>> \/ tp_dtor # "none")

-----------------------------------------------------------------------------
(* Claims on the geometry                                                  *)

\* C22: for every polygon P and point p, if P.contains_point(p) is true then
\* P.distance_to(p) is 0.
ContainedPointAtDistanceZero ==
    (pg.polygon # <<>> /\ pg.contains) => pg.distance = 0

-----------------------------------------------------------------------------
(* Claims on the library                                                   *)

\* the latest call on the library
LastLibCall == lib.trace[Len(lib.trace)]

\* C24: initialize called while the library is initialized returns true and
\* changes neither g_initialized nor g_openmp_enabled, whatever its argument.
InitializeIdempotent ==
    [][(/\ Len(lib'.trace) = Len(lib.trace) + 1
        /\ lib'.trace[Len(lib'.trace)].op = "initialize"
        /\ lib.initialized)
           => /\ lib'.result = TRUE
              /\ lib'.initialized = lib.initialized
              /\ lib'.openmp_enabled = lib.openmp_enabled]_vars

\* initialize(true) took effect and was followed by initialize(false)
ReinitializedWithOtherArgument ==
    /\ Len(lib.trace) >= 2
    /\ LastLibCall = [op |-> "initialize", enable_openmp |-> FALSE]
    /\ lib.trace[Len(lib.trace) - 1] = [op |-> "initialize", enable_openmp |-> TRUE]
    /\ lib.initialized /\ lib.openmp_enabled

====
